---- MODULE Spec2Model ----
(***************************************************************************)
(* A model of kourai: the filename classifier (NewLinkable,                *)
(* EpisodeFromPath, MovieFromPath), the concurrent directory walk          *)
(* (findFiles), the orchestrator (LinkFromFiles) and the TMDB resolver     *)
(* (tmdbLookup, SearchMovie, SearchEpisode, fetch2, fetch).                *)
(*                                                                         *)
(* Strings are sequences of one-character strings.  Offsets into a string  *)
(* are Go offsets (0-based); At(s, i) is Go's s[i] and Slice(s, a, b) is   *)
(* Go's s[a:b].                                                            *)
(***************************************************************************)
EXTENDS Integers, Sequences, FiniteSets, TLC

VARIABLES
    SkipTitleCaser,  \* options.SkipTitleCaser
    cpath,           \* the path handed to NewLinkable
    cresult,         \* what NewLinkable returned for it
    cpc,             \* "input" before the call, "classified" after it, "planned"
    ctarget,         \* what Target() returned for the result
    call,            \* a call of lookupMovie, MatchMovieSearch or BestMatchIndex
    fs,              \* the file system under the destination: [dirs, links]
    lns,             \* the Links the link command ranges over
    creates          \* the calls of Create so far: [ln, before, after, report]

VARIABLES
    roots,     \* the file trees of the source roots (the file system, fixed)
    cur,       \* the root of the current findFiles call (0: none yet)
    wpc,       \* the walk: "call", "walk", "returned"
    wnext,     \* the next node filepath.WalkDir visits
    task,      \* per node, its per-file goroutine: "none", "spawned", "sending", "done"
    wg,        \* the WaitGroup counter of findFiles
    closer,    \* the goroutine that waits and closes c: "none", "waiting", "done"
    chClosed,  \* whether c is closed
    closes,    \* how many times c was closed
    wpanic,    \* a send on the closed c, or a second close of c, has panicked
    errc,      \* the buffered error channel of findFiles
    recv,      \* per node, how many entities for it the consumer has received
    tpc,       \* the consumer that ranges over c: "ranging", "done"
    cancelled  \* the caller has raised its cancellation signal

VARIABLES
    opts,        \* options: [tmdb: TMDBClient # nil, excludeTypes, dest]
    opc,         \* the goroutine of LinkFromFiles: "loop", "errc", "ranging", "done"
    src,         \* how many of options.sources its loop has finished with
    ent,         \* per entity <<root, node>>, its goroutine and its fields
    lwg,         \* the WaitGroup counter of LinkFromFiles
    lcloser,     \* the goroutine that waits and closes linkc
    linkClosed,  \* whether linkc is closed
    linked,      \* per entity, how many Links for it the caller has received
    srv,         \* fetch2: idle, or busy with one request
    cache,       \* fetch2's cache: entries [url, val]
    crashed,     \* a goroutine has panicked: the process is gone
    netlog,      \* the HTTP requests made so far (history)
    canon,       \* the resolutions that succeeded so far (history)
    limiter,     \* the process-wide rate.Limiter
    emitted      \* per entity, the Links the caller has received for it

createVars == <<fs, lns, creates>>

classifyVars == <<cpath, cresult, cpc, ctarget, call, createVars>>

linkVars == <<opts, opc, src, ent, lwg, lcloser, linkClosed, linked, srv, cache, crashed,
              netlog, canon, limiter, emitted>>

walkVars == <<roots, cur, wpc, wnext, task, wg, closer, chClosed, closes, wpanic, errc>>

testVars == <<recv, tpc, cancelled>>

vars == <<SkipTitleCaser, classifyVars, walkVars, testVars, linkVars>>

----------------------------------------------------------------------------
(* Characters and strings *)

Digits == {"0","1","2","3","4","5","6","7","8","9"}

UpperSeq == <<"A","B","C","D","E","F","G","H","I","J","K","L","M","N","O","P","Q","R","S","T","U","V","W","X","Y","Z">>

LowerSeq == <<"a","b","c","d","e","f","g","h","i","j","k","l","m","n","o","p","q","r","s","t","u","v","w","x","y","z">>

UpperSet == {UpperSeq[i] : i \in 1..26}

LowerSet == {LowerSeq[i] : i \in 1..26}

LowerMap == [c \in UpperSet |-> LowerSeq[CHOOSE i \in 1..26 : UpperSeq[i] = c]]

UpperMap == [c \in LowerSet |-> UpperSeq[CHOOSE i \in 1..26 : LowerSeq[i] = c]]

DigitSeq == <<"0","1","2","3","4","5","6","7","8","9">>

DigitMap == [c \in Digits |-> (CHOOSE i \in 1..10 : DigitSeq[i] = c) - 1]

IsDigit(c) == c \in Digits

IsLetter(c) == c \in UpperSet \/ c \in LowerSet

\* regexp \w
IsWord(c) == IsDigit(c) \/ IsLetter(c) \/ c = "_"

ToLower(c) == IF c \in UpperSet THEN LowerMap[c] ELSE c

ToUpper(c) == IF c \in LowerSet THEN UpperMap[c] ELSE c

ToLowerStr(s) == [i \in 1..Len(s) |-> ToLower(s[i])]

ToUpperStr(s) == [i \in 1..Len(s) |-> ToUpper(s[i])]

At(s, i) == s[i + 1]

Slice(s, a, b) == SubSeq(s, a + 1, b)

Min(S) == CHOOSE x \in S : \A y \in S : x <= y

Max(S) == CHOOSE x \in S : \A y \in S : x >= y

\* regexp \b at offset i of s
Boundary(s, i) ==
    LET before == i > 0 /\ IsWord(At(s, i - 1))
        after == i < Len(s) /\ IsWord(At(s, i))
    IN before # after

\* the offset just after the run of digits that starts at offset i
DigitRunEnd(s, i) ==
    Min({j \in i..Len(s) : j = Len(s) \/ ~IsDigit(At(s, j))})

\* a case-insensitive literal at offset i
MatchLit(s, i, lit) ==
    /\ i + Len(lit) <= Len(s)
    /\ \A k \in 1..Len(lit) : ToLower(s[i + k]) = lit[k]

\* strings.LastIndex(s, c), -1 when c does not occur
LastIndex(s, c) ==
    LET at == {i \in 0..(Len(s) - 1) : At(s, i) = c}
    IN IF at = {} THEN -1 ELSE Max(at)

\* strings.Index(s, c), -1 when c does not occur
Index(s, c) ==
    LET at == {i \in 0..(Len(s) - 1) : At(s, i) = c}
    IN IF at = {} THEN -1 ELSE Min(at)

\* strings.Count(s, c)
Count(s, c) == Cardinality({i \in 1..Len(s) : s[i] = c})

\* strings.Split(s, c) for a one-character separator
RECURSIVE Split(_, _)
Split(s, c) ==
    LET i == Index(s, c)
    IN IF i = -1 THEN <<s>>
       ELSE <<Slice(s, 0, i)>> \o Split(Slice(s, i + 1, Len(s)), c)

\* strings.Join(items, c)
RECURSIVE Join(_, _)
Join(items, c) ==
    IF Len(items) = 0 THEN <<>>
    ELSE IF Len(items) = 1 THEN items[1]
    ELSE items[1] \o <<c>> \o Join(Tail(items), c)

\* strings.Cut(s, c): the part before the first c
CutBefore(s, c) ==
    LET i == Index(s, c) IN IF i = -1 THEN s ELSE Slice(s, 0, i)

\* strings.TrimSuffix(s, c) for a one-character suffix
TrimSuffix(s, c) ==
    IF Len(s) > 0 /\ s[Len(s)] = c THEN Slice(s, 0, Len(s) - 1) ELSE s

\* strings.Trim(s, cutset)
Trim(s, cutset) ==
    LET keep == {i \in 1..Len(s) : s[i] \notin cutset}
    IN IF keep = {} THEN <<>> ELSE SubSeq(s, Min(keep), Max(keep))

\* strings.ReplaceAll(s, from, to) for one-character strings
ReplaceAll(s, from, to) == [i \in 1..Len(s) |-> IF s[i] = from THEN to ELSE s[i]]

RECURSIVE DigitsValue(_)
DigitsValue(ds) ==
    IF Len(ds) = 0 THEN 0
    ELSE DigitsValue(Slice(ds, 0, Len(ds) - 1)) * 10 + DigitMap[ds[Len(ds)]]

\* strconv.Atoi: an optional sign and at least one digit; a value that does
\* not fit an int is an error (here: more than 18 digits)
Atoi(s) ==
    LET signed == Len(s) > 0 /\ s[1] \in {"+", "-"}
        ds == IF signed THEN Tail(s) ELSE s
        wellFormed == Len(ds) > 0 /\ Len(ds) <= 18 /\ \A i \in 1..Len(ds) : IsDigit(ds[i])
    IN IF ~wellFormed THEN [ok |-> FALSE, val |-> 0]
       ELSE [ok |-> TRUE,
             val |-> IF signed /\ s[1] = "-" THEN 0 - DigitsValue(ds) ELSE DigitsValue(ds)]

\* filepath.Split: the directory with its trailing slash, and the file
SplitDir(p) == Slice(p, 0, LastIndex(p, "/") + 1)

SplitFile(p) == Slice(p, LastIndex(p, "/") + 1, Len(p))

\* filepath.Ext of a file name
Ext(file) ==
    LET i == LastIndex(file, ".")
    IN IF i = -1 THEN <<>> ELSE Slice(file, i, Len(file))

\* filepath.Base
Base(p) ==
    LET nonSlash == {i \in 1..Len(p) : p[i] # "/"}
        q == IF nonSlash = {} THEN <<>> ELSE SubSeq(p, 1, Max(nonSlash))
    IN IF Len(p) = 0 THEN <<".">>
       ELSE IF nonSlash = {} THEN <<"/">>
       ELSE SplitFile(q)

----------------------------------------------------------------------------
(* The regular expressions of the classifier *)

IsE(c) == c \in {"e", "E"}

\* the offset just after the run (?:e\d+)+ that starts at offset d (d when
\* there is none)
RECURSIVE ERunEnd(_, _)
ERunEnd(s, d) ==
    IF d + 1 < Len(s) /\ IsE(At(s, d)) /\ IsDigit(At(s, d + 1))
    THEN ERunEnd(s, DigitRunEnd(s, d + 1))
    ELSE d

NoMatch == [found |-> FALSE]

\* episodeExpr = (?i)(s\d+).?(e\d+)-?((?:e\d+)+)* anchored at offset i:
\* locs as FindStringSubmatchIndex reports them (g3s = -1: group 3 unmatched)
episodeExprAt(s, i) ==
    IF ~(i + 1 < Len(s) /\ ToLower(At(s, i)) = "s" /\ IsDigit(At(s, i + 1)))
    THEN NoMatch
    ELSE
    LET j == DigitRunEnd(s, i + 1)
        withAny == j + 2 < Len(s) /\ At(s, j) # "\n" /\ IsE(At(s, j + 1)) /\ IsDigit(At(s, j + 2))
        without == j + 1 < Len(s) /\ IsE(At(s, j)) /\ IsDigit(At(s, j + 1))
        k == IF withAny THEN j + 1 ELSE j
        m == DigitRunEnd(s, k + 1)
        d == IF m < Len(s) /\ At(s, m) = "-" THEN m + 1 ELSE m
        r == ERunEnd(s, d)
    IN IF ~(withAny \/ without) THEN NoMatch
       ELSE [found |-> TRUE, start |-> i, end |-> r,
             g1s |-> i, g1e |-> j, g2s |-> k, g2e |-> m,
             g3s |-> IF r > d THEN d ELSE -1, g3e |-> IF r > d THEN r ELSE -1]

\* episodeExpr.FindStringSubmatchIndex(s): the leftmost match
episodeExpr(s) ==
    LET at == {i \in 0..(Len(s) - 1) : episodeExprAt(s, i).found}
    IN IF at = {} THEN NoMatch ELSE episodeExprAt(s, Min(at))

\* seasonExpr = (?i)s(\d+): FindString, the leftmost match (empty when none)
seasonExpr(s) ==
    LET at == {i \in 0..(Len(s) - 2) : ToLower(At(s, i)) = "s" /\ IsDigit(At(s, i + 1))}
    IN IF at = {} THEN <<>> ELSE Slice(s, Min(at), DigitRunEnd(s, Min(at) + 1))

\* the optional date suffix (?:-\d{1,2}-\d{1,2})? at offset p: its length
DateSuffixLen(s, p) ==
    LET dig(q) == q < Len(s) /\ IsDigit(At(s, q))
        dash(q) == q < Len(s) /\ At(s, q) = "-"
        n1 == IF dig(p + 1) /\ dig(p + 2) /\ dash(p + 3) THEN 2
              ELSE IF dig(p + 1) /\ dash(p + 2) THEN 1 ELSE 0
        q2 == p + 1 + n1 + 1
        n2 == IF dig(q2) /\ dig(q2 + 1) THEN 2 ELSE IF dig(q2) THEN 1 ELSE 0
    IN IF dash(p) /\ n1 > 0 /\ n2 > 0 THEN 1 + n1 + 1 + n2 ELSE 0

\* dateExpr = (?:\b(19|20)\d{2}\b(?:-\d{1,2}-\d{1,2})?) anchored at offset i
dateExprAt(s, i) ==
    /\ i + 4 <= Len(s)
    /\ Boundary(s, i)
    /\ Slice(s, i, i + 2) \in {<<"1","9">>, <<"2","0">>}
    /\ IsDigit(At(s, i + 2)) /\ IsDigit(At(s, i + 3))
    /\ Boundary(s, i + 4)

\* dateExpr.FindStringIndex(s)
dateExpr(s) ==
    LET at == {i \in 0..(Len(s) - 4) : dateExprAt(s, i)}
        i == Min(at)
    IN IF at = {} THEN NoMatch
       ELSE [found |-> TRUE, start |-> i, end |-> i + 4 + DateSuffixLen(s, i + 4)]

SentinelWords ==
    { <<"l","i","m","i","t","e","d">>, <<"u","n","r","a","t","e","d">>,
      <<"w","e","b","-","d","l">>, <<"w","e","b","r","i","p">>,
      <<"b","l","u","r","a","y">>, <<"1","0","b","i","t">>, <<"p","a","l">>,
      <<"r","e","r","i","p">>, <<"r","e","p","a","c","k">>,
      <<"d","v","d","r","i","p">>, <<"a",".","k",".","a",".">>,
      <<"a",".","k",".","a">>, <<"a","k","a">> }

\* sentinelExpr = (?i)\b(\d{3,4}[ip]|limited|...|aka)\b anchored at offset i
sentinelExprAt(s, i) ==
    /\ Boundary(s, i)
    /\ \/ \E n \in {3, 4} :
            /\ i + n + 1 <= Len(s)
            /\ \A k \in 0..(n - 1) : IsDigit(At(s, i + k))
            /\ ToLower(At(s, i + n)) \in {"i", "p"}
            /\ Boundary(s, i + n + 1)
       \/ \E w \in SentinelWords : MatchLit(s, i, w) /\ Boundary(s, i + Len(w))

\* sentinelExpr.FindStringIndex(s): only the start of the match is used
sentinelExpr(s) ==
    LET at == {i \in 0..(Len(s) - 1) : sentinelExprAt(s, i)}
    IN IF at = {} THEN NoMatch ELSE [found |-> TRUE, start |-> Min(at)]

----------------------------------------------------------------------------
(* The classifier *)

oldestMovieYear == 1888

\* cases.Title(language.AmericanEnglish, cases.NoLower): the first cased
\* letter after the start or after a word break is upper-cased, nothing is
\* lower-cased.  Letters and digits (and "_", "'") do not break a word.
IsBreak(c) == ~(IsWord(c) \/ c = "'")

TitleCase(t) ==
    [i \in 1..Len(t) |->
        IF IsLetter(t[i])
           /\ \A k \in 1..(i - 1) :
                  IsLetter(t[k]) => \E b \in (k + 1)..(i - 1) : IsBreak(t[b])
        THEN ToUpper(t[i]) ELSE t[i]]

\* makeTitle: normalise a title
makeTitle(s) ==
    LET t == Trim(ReplaceAll(ReplaceAll(s, ".", " "), "_", " "), {"-", " "})
    IN IF SkipTitleCaser THEN t ELSE TitleCase(t)

\* the episode ID built from the sub-matches of the marker
EpisodeID(basename, locs) ==
    Slice(basename, locs.g1s, locs.g1e) \o Slice(basename, locs.g2s, locs.g2e)
    \o (IF locs.g3s = -1 THEN <<>> ELSE Slice(basename, locs.g3s, locs.g3e))

\* the end of the last sub-match that took part in the match
EpisodeIDEnd(locs) == IF locs.g3s = -1 THEN locs.g2e ELSE locs.g3e

\* the season number parsed from the episode ID
SeasonOfID(id) == Atoi(Tail(seasonExpr(id)))

\* the episode number parsed from the episode ID
EpisodeOfID(id) == Atoi(TrimSuffix(Split(ToLowerStr(id), "e")[2], "-"))

\* title[1] after the sentinel adjustment, loc the sentinel match
TitleEndAt(len, title0, loc) ==
    IF loc.found /\ loc.start < len
    THEN IF loc.start > title0 THEN loc.start - 1
         ELSE IF loc.start = title0 THEN title0
         ELSE len
    ELSE len

EpisodeTitleEnd(basename, title0) == TitleEndAt(Len(basename), title0, sentinelExpr(basename))

\* series[1] after the date adjustment, loc the date match
SeriesEndAt(series1, loc) ==
    IF loc.found /\ loc.start < series1 /\ loc.start - 1 > 0
    THEN loc.start - 1 ELSE series1

\* EpisodeSeriesEnd, were start - 1 taken whatever start is
EpisodeSeriesEnd_Unguarded(basename, start) == SeriesEndAt(start - 1, dateExpr(basename))

EpisodeSeriesEnd(basename, start) ==
    SeriesEndAt(IF start > 0 THEN start - 1 ELSE 0, dateExpr(basename))

\* ep.year and whether it parsed, loc the date match
YearAt(basename, loc) ==
    IF loc.found THEN Atoi(CutBefore(Slice(basename, loc.start, loc.end), "-"))
    ELSE [ok |-> TRUE, val |-> 0]

EpisodeYear(basename) == YearAt(basename, dateExpr(basename))

\* the name of the file without its extension
NameOf(file) == Slice(file, 0, Len(file) - Len(Ext(file)))

BaseNameOf(path) == NameOf(SplitFile(path))

\* the episode EpisodeFromPath returns with its error when the base name has
\* no marker
BlankEpisode(path) ==
    [type |-> "episode", path |-> path, series |-> <<>>, title |-> <<>>,
     id |-> <<>>, season |-> 0, episode |-> 0, year |-> 0, err |-> TRUE]

\* the episode, from the spans and numbers found
EpisodeOf(path, basename, id, title0, title1, series1, s, e, year) ==
    [type |-> "episode", path |-> path,
     series |-> makeTitle(Slice(basename, 0, series1)),
     title |-> IF title0 <= title1 THEN makeTitle(Slice(basename, title0, title1))
               ELSE <<>>,
     id |-> id,
     season |-> IF s.ok THEN s.val ELSE 0,
     episode |-> IF e.ok THEN e.val ELSE 0,
     year |-> year.val,
     err |-> ~(s.ok /\ e.ok /\ year.ok)]

EpisodeFromID(path, basename, start, id, title0) ==
    EpisodeOf(path, basename, id, title0,
              EpisodeTitleEnd(basename, title0), EpisodeSeriesEnd(basename, start),
              SeasonOfID(id), EpisodeOfID(id), EpisodeYear(basename))

EpisodeFromLocs(path, basename, locs) ==
    IF ~locs.found THEN BlankEpisode(path)
    ELSE EpisodeFromID(path, basename, locs.start, EpisodeID(basename, locs),
                       EpisodeIDEnd(locs) + 1)

EpisodeFromPath(path) ==
    EpisodeFromLocs(path, BaseNameOf(path), episodeExpr(BaseNameOf(path)))

YearValid(year) == year >= oldestMovieYear

\* the end of the title in candidate i, from its date and sentinel matches
MovieTitleEnd(len, dateLoc, sLoc) ==
    LET end1 == IF dateLoc.found /\ dateLoc.start > 0 /\ dateLoc.start < len
                THEN dateLoc.start - 1 ELSE len
    IN IF sLoc.found /\ sLoc.start > 0 /\ sLoc.start < end1
       THEN sLoc.start - 1 ELSE end1

\* the movie after a candidate that was not skipped
MovieWith(mov, hasYear, year, title) ==
    [mov EXCEPT !.year = IF hasYear THEN year ELSE @,
                !.title = IF Len(title) > Len(@) THEN title ELSE @]

MovieCandidateAt(mov, i, dateLoc, year) ==
    IF dateLoc.found /\ (~year.ok \/ year.val < oldestMovieYear) THEN mov
    ELSE MovieWith(mov, dateLoc.found, year.val,
                   makeTitle(Slice(i, 0, MovieTitleEnd(Len(i), dateLoc, sentinelExpr(i)))))

\* the year of candidate i as MovieFromPath parses it
MovieYearAt(i, dateLoc) ==
    IF dateLoc.found THEN Atoi(Slice(i, dateLoc.start, dateLoc.end))
    ELSE [ok |-> FALSE, val |-> 0]

MovieCandidateDated(mov, i, dateLoc) == MovieCandidateAt(mov, i, dateLoc, MovieYearAt(i, dateLoc))

\* one round of MovieFromPath's loop over the base name and the directory:
\* mov is the movie so far, i the candidate name
MovieCandidate(mov, i) == MovieCandidateDated(mov, i, dateExpr(i))

\* the loop's second round, unless the first one ended it
MovieSecond(mov1, dir) ==
    IF mov1.title # <<>> /\ YearValid(mov1.year) THEN mov1 ELSE MovieCandidate(mov1, dir)

MovieChecked(mov) == [mov EXCEPT !.err = (mov.title = <<>>)]

MovieFromPath(path) ==
    MovieChecked(
        MovieSecond(
            MovieCandidate([type |-> "movie", path |-> path, title |-> <<>>, year |-> 0,
                            err |-> FALSE],
                           BaseNameOf(path)),
            Base(SplitDir(path))))

\* NewLinkable: the marker is looked for in the whole path
NewLinkable(path) ==
    IF episodeExpr(path).found THEN EpisodeFromPath(path) ELSE MovieFromPath(path)

----------------------------------------------------------------------------
(* Target paths: episode.Target, movie.Target, path.Join *)

\* fmt.Sprintf("%d", n)
RECURSIVE Itoa(_)
Itoa(n) ==
    IF n < 0 THEN <<"-">> \o Itoa(0 - n)
    ELSE IF n < 10 THEN <<DigitSeq[n + 1]>>
    ELSE Itoa(n \div 10) \o <<DigitSeq[(n % 10) + 1]>>

\* SeasonDir, were season 0 a season like the others
SeasonDir_Numbered(season) == <<"S","e","a","s","o","n"," ">> \o Itoa(season)

\* the season folder
SeasonDir(season) ==
    IF season = 0 THEN <<"S","p","e","c","i","a","l","s">> ELSE <<"S","e","a","s","o","n"," ">> \o Itoa(season)

\* EpisodeIDOf, were the ID shown as it was found
EpisodeIDOf_Flat(id, eps) == ToUpperStr(id)

\* the episode ID as the target shows it, eps the parts of the lower-cased
\* ID between its e's
EpisodeIDOf(id, eps) ==
    IF Len(eps) > 2
    THEN ToUpperStr(eps[1] \o <<"e">> \o Trim(eps[2], {"-"})
                    \o <<"-","e">> \o Trim(eps[Len(eps)], {"-"}))
    ELSE ToUpperStr(id)

TargetEpisodeID(id) == EpisodeIDOf(id, Split(ToLowerStr(id), "e"))

\* the name with its year, when there is one
WithYear(name, year) == name \o <<" ","(">> \o Itoa(year) \o <<")">>

SeriesDir(e) == IF e.year # 0 THEN WithYear(e.series, e.year) ELSE e.series

\* the episode's target, from its folders, ID and extension
EpisodeTargetOf(series, season, ep, title, ext) ==
    <<"t","v","/">> \o series \o <<"/">> \o season \o <<"/">> \o series \o <<" ","-"," ">> \o ep
    \o (IF title # <<>> THEN <<" ","-"," ">> \o title ELSE <<>>) \o ext

episodeTarget(e) ==
    EpisodeTargetOf(SeriesDir(e), SeasonDir(e.season), TargetEpisodeID(e.id), e.title,
                    Ext(SplitFile(e.path)))

\* MovieDir, were the year shown whatever it is
MovieDir_AnyYear(m) == WithYear(m.title, m.year)

MovieDir(m) == IF YearValid(m.year) THEN WithYear(m.title, m.year) ELSE m.title

movieTarget(m) == <<"m","o","v","i","e","s","/">> \o MovieDir(m) \o <<"/">> \o SplitFile(m.path)

\* l.Target()
Target(m) == IF m.type = "episode" THEN episodeTarget(m) ELSE movieTarget(m)

\* path.Clean over the elements of a path, out the elements kept so far:
\* an empty element and "." are dropped, ".." takes the last element kept
\* away, is dropped at the root and kept at the start of a relative path
RECURSIVE CleanFrom(_, _, _, _)
CleanFrom(elems, i, out, rooted) ==
    IF i > Len(elems) THEN out
    ELSE IF elems[i] = <<>> \/ elems[i] = <<".">> THEN CleanFrom(elems, i + 1, out, rooted)
    ELSE IF elems[i] # <<".", ".">> THEN CleanFrom(elems, i + 1, Append(out, elems[i]), rooted)
    ELSE IF Len(out) > 0 /\ out[Len(out)] # <<".", ".">>
         THEN CleanFrom(elems, i + 1, SubSeq(out, 1, Len(out) - 1), rooted)
    ELSE IF rooted THEN CleanFrom(elems, i + 1, out, rooted)
    ELSE CleanFrom(elems, i + 1, Append(out, elems[i]), rooted)

CleanOf(rooted, kept) ==
    IF rooted THEN <<"/">> \o Join(kept, "/")
    ELSE IF kept = <<>> THEN <<".">>
    ELSE Join(kept, "/")

\* path.Clean
Clean(p) ==
    IF p = <<>> THEN <<".">>
    ELSE CleanOf(p[1] = "/", CleanFrom(Split(p, "/"), 1, <<>>, p[1] = "/"))

\* path.Join(destdir, target)
pathJoin(destdir, target) ==
    IF destdir = <<>> /\ target = <<>> THEN <<>>
    ELSE IF destdir = <<>> THEN Clean(target)
    ELSE IF target = <<>> THEN Clean(destdir)
    ELSE Clean(destdir \o <<"/">> \o target)

----------------------------------------------------------------------------
(* Classification of single paths: the paths are /r/<dir>/<base>.mkv, the  *)
(* base name any string of at most MaxBaseTokens tokens.                   *)

MaxBaseTokens == 3

Tokens ==
    { <<"x">>, <<" ">>, <<".">>, <<"-">>,
      <<"s","0","1","e","0","2">>, <<"S","1",".","E","3">>, <<"E","0","4">>, <<"s","2">>,
      <<"S","0","0","E","1","0","E","1","1","E","1","2">>,
      <<"s","9","9","9","9","9","9","9","9","9","9","9","9","9","9","9","9","9","9","9","9","e","1">>,
      <<"1","9","9","9">>, <<"2","0","0","1","-","0","1","-","0","1">>,
      <<"1","0","8","0","p">> }

RECURSIVE TokenStrings(_)
TokenStrings(n) ==
    IF n = 0 THEN {<<>>}
    ELSE LET shorter == TokenStrings(n - 1)
         IN shorter \cup {p \o t : p \in shorter, t \in Tokens}

BaseNames == TokenStrings(MaxBaseTokens)

DirNames ==
    { <<"d">>, <<"-">>, <<"s","2">>, <<"s","0","1","e","0","2">>,
      <<"x"," ","1","9","9","9">> }

ClassifyPath(dir, base) ==
    <<"/","r","/">> \o dir \o <<"/">> \o base \o <<".","m","k","v">>

NoResult == [type |-> "none"]

\* the walk, not in use
WalkIdle ==
    /\ roots = <<>> /\ cur = 0 /\ wpc = "idle" /\ wnext = 0 /\ task = <<>>
    /\ wg = 0 /\ closer = "none" /\ chClosed = FALSE /\ closes = 0
    /\ wpanic = FALSE /\ errc = <<>>
    /\ recv = <<>> /\ tpc = "idle" /\ cancelled = FALSE

NoRequest == [st |-> "idle"]

\* no call of the matcher
NoCall == [fn |-> "none"]

\* an empty file system
NoFS == [dirs |-> {}, links |-> {}]

\* the link command, not in use
CreateIdle == fs = NoFS /\ lns = <<>> /\ creates = <<>>

\* limiter = rate.NewLimiter(rate.Limit(40), 40); taken counts the tokens
\* Wait has handed out
NewLimiter == [limit |-> 40, burst |-> 40, taken |-> 0]

LinkIdle ==
    /\ opts = [tmdb |-> FALSE, excludeTypes |-> {}, dest |-> <<>>]
    /\ opc = "idle" /\ src = 0 /\ ent = <<>> /\ lwg = 0
    /\ lcloser = "none" /\ linkClosed = FALSE /\ linked = <<>>
    /\ srv = NoRequest /\ cache = {} /\ crashed = FALSE
    /\ netlog = {} /\ canon = {}
    /\ limiter = NewLimiter /\ emitted = <<>>

ClassifyInit ==
    /\ SkipTitleCaser \in BOOLEAN
    /\ cpath \in {ClassifyPath(d, b) : d \in DirNames, b \in BaseNames}
    /\ cresult = NoResult
    /\ cpc = "input"
    /\ ctarget = <<>>
    /\ call = NoCall
    /\ CreateIdle
    /\ WalkIdle
    /\ LinkIdle

Classify ==
    /\ cpc = "input"
    /\ cresult' = NewLinkable(cpath)
    /\ cpc' = "classified"
    /\ UNCHANGED <<SkipTitleCaser, cpath, ctarget, call, createVars, walkVars, testVars, linkVars>>

\* Target() of the entity NewLinkable returned without an error
Plan ==
    /\ cpc = "classified" /\ ~cresult.err
    /\ ctarget' = Target(cresult)
    /\ cpc' = "planned"
    /\ UNCHANGED <<SkipTitleCaser, cpath, cresult, call, createVars, walkVars, testVars, linkVars>>

ClassifyNext == Classify \/ Plan

SpecClassify == ClassifyInit /\ [][ClassifyNext]_vars

----------------------------------------------------------------------------
(* Claims about the classifier *)

\* the integer that follows the 's' of a marker, and the first integer that
\* follows its 'e'
MarkerSeason(s, m) == DigitsValue(Slice(s, m.g1s + 1, m.g1e))

MarkerEpisode(s, m) == DigitsValue(Slice(s, m.g2s + 1, m.g2e))

\* C5: a path that matches the episode marker classifies as an Episode (no
\* error) whose season and episode are the numbers of the marker (the base
\* name's marker when it has one); a path without a marker classifies as a
\* Movie or fails, never as an Episode.
C5_EpisodeIffMarker ==
    cpc = "classified" =>
        LET inPath == episodeExpr(cpath)
            inBase == episodeExpr(BaseNameOf(cpath))
        IN IF inPath.found
           THEN /\ cresult.type = "episode"
                /\ ~cresult.err
                /\ IF inBase.found
                   THEN /\ cresult.season = MarkerSeason(BaseNameOf(cpath), inBase)
                        /\ cresult.episode = MarkerEpisode(BaseNameOf(cpath), inBase)
                   ELSE /\ cresult.season = MarkerSeason(cpath, inPath)
                        /\ cresult.episode = MarkerEpisode(cpath, inPath)
           ELSE cresult.type = "movie"

----------------------------------------------------------------------------
(* Claims about the planned target of a classified path *)

\* the season folder of an episode's target: the element after tv/<series>
SeasonFolder(target) == Split(target, "/")[3]

\* folder is "Season <N>", N the decimal numeral of n
IsSeasonOf(folder, n) ==
    /\ Len(folder) > 7
    /\ SubSeq(folder, 1, 7) = <<"S","e","a","s","o","n"," ">>
    /\ \A i \in 8..Len(folder) : IsDigit(folder[i])
    /\ folder[8] # "0"
    /\ DigitsValue(SubSeq(folder, 8, Len(folder))) = n

PlannedEpisode == cpc = "planned" /\ cresult.type = "episode"

\* C23: for every Episode the classifier returns, the season folder of the
\* planned target is "Specials" if and only if the season (the number of the
\* marker) is 0, and "Season <N>" for the season number N otherwise.
C23_SpecialsIffSeasonZero ==
    PlannedEpisode =>
        /\ cresult.season = MarkerSeason(BaseNameOf(cpath), episodeExpr(BaseNameOf(cpath)))
        /\ (SeasonFolder(ctarget) = <<"S","p","e","c","i","a","l","s">>) <=> (cresult.season = 0)
        /\ (cresult.season # 0) => IsSeasonOf(SeasonFolder(ctarget), cresult.season)

C23_Witness ==
    /\ PlannedEpisode /\ cresult.season = 0 /\ SeasonFolder(ctarget) = <<"S","p","e","c","i","a","l","s">>

\* the last e<digits> of the run of further episodes of a marker
LastOfRun(run) == Slice(run, Max({i \in 0..(Len(run) - 1) : IsE(At(run, i))}), Len(run))

\* the ID the target is to show for the marker m of s: season and first
\* episode designators, and for more than one episode "-" and the last
ExpectedID(s, m) ==
    ToUpperStr(Slice(s, m.g1s, m.g1e) \o Slice(s, m.g2s, m.g2e)
               \o (IF m.g3s = -1 THEN <<>>
                   ELSE <<"-">> \o LastOfRun(Slice(s, m.g3s, m.g3e))))

\* C24: the target of an Episode shows the marker's ID upper-cased, as
\* S<season>E<first>-E<last> when the marker lists more than one episode,
\* and as the season and episode designators without their separator when
\* it lists one.
C24_EpisodeIDRendered ==
    PlannedEpisode =>
        ctarget = EpisodeTargetOf(SeriesDir(cresult), SeasonFolder(ctarget),
                                  ExpectedID(BaseNameOf(cpath), episodeExpr(BaseNameOf(cpath))),
                                  cresult.title, Ext(SplitFile(cpath)))

C24_Witness ==
    /\ PlannedEpisode
    /\ cresult.id = <<"S","0","0","E","1","0","E","1","1","E","1","2">>
    /\ ExpectedID(BaseNameOf(cpath), episodeExpr(BaseNameOf(cpath))) = <<"S","0","0","E","1","0","-","E","1","2">>
    /\ cresult.title # <<>>

----------------------------------------------------------------------------
(* The file system and the file filters *)

\* What the walk learns of a directory entry: its kind ("dir", "file", or
\* "other" for a symlink or device), its name, its modification time, and
\* whether d.Info() fails for it.
Profiles ==
    << [kind |-> "dir", name |-> <<"d">>, mtime |-> 2, infoErr |-> FALSE],
       [kind |-> "dir", name |-> <<"e","x","c","l","u","d","e","d","-","d","i","r">>,
        mtime |-> 2, infoErr |-> FALSE],
       [kind |-> "dir", name |-> <<"s","0","1","e","0","2">>, mtime |-> 2, infoErr |-> FALSE],
       [kind |-> "dir", name |-> <<"e","x","c","l","u","d","e","d","-","d","i","r">>,
        mtime |-> 2, infoErr |-> TRUE],
       [kind |-> "file", name |-> <<"A"," ","(","1","9","9","9",")",".","m","k","v">>,
        mtime |-> 2, infoErr |-> FALSE],
       [kind |-> "file", name |-> <<"n","o","-","m","a","t","c","h",".","m","k","v">>,
        mtime |-> 2, infoErr |-> FALSE],
       [kind |-> "file", name |-> <<"x"," ","s","0","1","e","0","2",".","m","k","v">>,
        mtime |-> 2, infoErr |-> FALSE],
       [kind |-> "file", name |-> <<"s","a","m","p","l","e",".","m","k","v">>,
        mtime |-> 2, infoErr |-> FALSE],
       [kind |-> "file", name |-> <<"A"," ","(","1","9","9","9",")",".","t","x","t">>,
        mtime |-> 2, infoErr |-> FALSE],
       [kind |-> "file", name |-> <<"o","l","d"," ","(","2","0","0","1",")",".","m","k","v">>,
        mtime |-> 1, infoErr |-> FALSE],
       [kind |-> "other", name |-> <<"A"," ","(","1","9","9","9",")",".","m","k","v">>,
        mtime |-> 2, infoErr |-> FALSE],
       [kind |-> "file", name |-> <<"A"," ","(","1","9","9","9",")",".","m","k","v">>,
        mtime |-> 2, infoErr |-> TRUE],
       [kind |-> "file",
        name |-> <<"A"," ","B"," ","C"," ","(","1","9","9","9",")",".","m","k","v">>,
        mtime |-> 2, infoErr |-> FALSE],
       [kind |-> "file",
        name |-> <<"x"," ","1","9","9","9"," ","s","0","1","e","0","2",".","m","k","v">>,
        mtime |-> 2, infoErr |-> FALSE] >>

RootNames == <<"a", "b", "c", "d", "e", "f">>

RootProfile(r) == [kind |-> "dir", name |-> <<RootNames[r]>>, mtime |-> 2, infoErr |-> FALSE]

\* fileMTimeFilter.exclude (after, before: [set, t], set FALSE for nil)
fileMTimeFilterExclude(f, info) ==
    LET a == f.after.set /\ ~(info.mtime > f.after.t)
        b == f.before.set /\ ~(info.mtime < f.before.t)
    IN a \/ b

\* fileExtensionFilter.exclude
fileExtensionFilterExclude(f, info) ==
    IF info.kind = "dir" THEN FALSE
    ELSE LET split == Split(info.name, ".")
         IN ToLowerStr(split[Len(split)]) \notin f.extensions

\* regexp.MatchString for the two shapes of pattern in use: (?i)\bword\b and
\* ^literal$
PatternMatches(pat, name) ==
    IF pat.shape = "word"
    THEN \E i \in 0..(Len(name) - 1) :
            Boundary(name, i) /\ MatchLit(name, i, pat.lit) /\ Boundary(name, i + Len(pat.lit))
    ELSE name = pat.lit

\* RegexpFilter.exclude
RegexpFilterExclude(f, info) == \E i \in 1..Len(f.excludes) : PatternMatches(f.excludes[i], info.name)

\* fileFilter.exclude, by the filter's type
FilterExclude(f, info) ==
    IF f.type = "regexp" THEN RegexpFilterExclude(f, info)
    ELSE IF f.type = "ext" THEN fileExtensionFilterExclude(f, info)
    ELSE fileMTimeFilterExclude(f, info)

\* options.fileFilters: NewOptions' default filter, then WithFileExtensions,
\* WithExcludePatterns and WithFileModificationFilter
fileFilters ==
    << [type |-> "regexp",
        excludes |-> << [shape |-> "word", lit |-> <<"s","a","m","p","l","e">>] >>],
       [type |-> "ext", extensions |-> {<<"m","k","v">>, <<"a","v","i">>}],
       [type |-> "regexp",
        excludes |-> << [shape |-> "exact",
                         lit |-> <<"e","x","c","l","u","d","e","d","-","d","i","r">>] >>],
       [type |-> "mtime", after |-> [set |-> TRUE, t |-> 1], before |-> [set |-> FALSE, t |-> 0]] >>

\* the loop over the filters: some filter excludes the entry
Excluded(info) == \E i \in 1..Len(fileFilters) : FilterExclude(fileFilters[i], info)

TreeSize(t) == Len(t.prof)

InfoOf(r, n) == IF n = 0 THEN RootProfile(r) ELSE Profiles[roots[r].prof[n]]

RECURSIVE PathOf(_, _)
PathOf(r, n) ==
    IF n = 0 THEN <<"/">> \o InfoOf(r, 0).name
    ELSE PathOf(r, roots[r].parent[n]) \o <<"/">> \o InfoOf(r, n).name

\* n's proper ancestors in tree t
RECURSIVE Ancestors(_, _)
Ancestors(t, n) ==
    IF n = 0 THEN {} ELSE {t.parent[n]} \cup Ancestors(t, t.parent[n])

\* the last node of n's subtree (WalkDir visits a subtree as one run of nodes)
SubtreeEnd(t, n) == Max({n} \cup {m \in 1..TreeSize(t) : n \in Ancestors(t, m)})

----------------------------------------------------------------------------
(* findFiles *)

Tree == roots[cur]

\* the synchronous part of findFiles(root): the channels are made, the root
\* is stat'ed, and either the closed c and the error are returned or the
\* walking goroutine is started
FindFilesCall(r) ==
    /\ cur' = r
    /\ wnext' = 0
    /\ task' = [n \in 0..TreeSize(roots[r]) |-> "none"]
    /\ wg' = 0
    /\ closer' = "none"
    /\ IF roots[r].stat
       THEN /\ chClosed' = FALSE /\ closes' = 0 /\ errc' = <<>> /\ wpc' = "walk"
       ELSE /\ chClosed' = TRUE /\ closes' = 1 /\ errc' = <<"stat failed">>
            /\ wpc' = "returned"
    /\ UNCHANGED <<roots, wpanic>>

\* AfterDir, were an excluded directory skipped without its subtree
AfterDir_EntryOnly(t, n, info) == n + 1

\* what the WalkDirFunc returns for a directory: the node visited next
AfterDir(t, n, info) == IF Excluded(info) THEN SubtreeEnd(t, n) + 1 ELSE n + 1

\* WalkDirFunc, d.Info() fails: return nil
WalkInfoErr ==
    /\ wpc = "walk" /\ wnext <= TreeSize(Tree)
    /\ InfoOf(cur, wnext).infoErr
    /\ wnext' = wnext + 1
    /\ UNCHANGED <<roots, cur, wpc, task, wg, closer, chClosed, closes, wpanic, errc>>

\* WalkDirFunc on a directory some filter excludes: return fs.SkipDir
WalkDirSkip ==
    /\ wpc = "walk" /\ wnext <= TreeSize(Tree)
    /\ LET info == InfoOf(cur, wnext)
       IN /\ ~info.infoErr /\ info.kind = "dir" /\ Excluded(info)
          /\ wnext' = AfterDir(Tree, wnext, info)
    /\ UNCHANGED <<roots, cur, wpc, task, wg, closer, chClosed, closes, wpanic, errc>>

\* WalkDirFunc on a directory no filter excludes: return nil
WalkDirEnter ==
    /\ wpc = "walk" /\ wnext <= TreeSize(Tree)
    /\ LET info == InfoOf(cur, wnext)
       IN /\ ~info.infoErr /\ info.kind = "dir" /\ ~Excluded(info)
          /\ wnext' = AfterDir(Tree, wnext, info)
    /\ UNCHANGED <<roots, cur, wpc, task, wg, closer, chClosed, closes, wpanic, errc>>

\* WalkDirFunc on a non-directory: wg.Add(1) and start its goroutine
WalkSpawn ==
    /\ wpc = "walk" /\ wnext <= TreeSize(Tree)
    /\ LET info == InfoOf(cur, wnext)
       IN ~info.infoErr /\ info.kind # "dir"
    /\ wg' = wg + 1
    /\ task' = [task EXCEPT ![wnext] = "spawned"]
    /\ wnext' = wnext + 1
    /\ UNCHANGED <<roots, cur, wpc, closer, chClosed, closes, wpanic, errc>>

\* WalkDir has returned: start the goroutine that closes c, send the walk's
\* error (nil: the WalkDirFunc returns no error but SkipDir) on errc
WalkReturn ==
    /\ wpc = "walk" /\ wnext > TreeSize(Tree)
    /\ closer' = "waiting"
    /\ errc' = Append(errc, "nil")
    /\ wpc' = "returned"
    /\ UNCHANGED <<roots, cur, wnext, task, wg, chClosed, closes, wpanic>>

\* TaskKeeps without the test for a regular file
TaskKeeps_AnyType(r, n) ==
    LET info == InfoOf(r, n)
    IN ~Excluded(info) /\ ~NewLinkable(PathOf(r, n)).err

\* the per-file goroutine up to its send: TRUE when it has an entity to send
TaskKeeps(r, n) ==
    LET info == InfoOf(r, n)
    IN /\ info.kind = "file"
       /\ ~Excluded(info)
       /\ ~NewLinkable(PathOf(r, n)).err

\* the per-file goroutine runs: it returns (wg.Done()) or reaches c <- m
TaskRun(n) ==
    /\ task[n] = "spawned"
    /\ IF TaskKeeps(cur, n)
       THEN /\ task' = [task EXCEPT ![n] = "sending"]
            /\ wg' = wg
       ELSE /\ task' = [task EXCEPT ![n] = "done"]
            /\ wg' = wg - 1
    /\ UNCHANGED <<roots, cur, wpc, wnext, closer, chClosed, closes, wpanic, errc>>

\* c <- m completes as the consumer receives (ready: the consumer is at its
\* receive), then wg.Done(); a send on the closed c panics
TaskSend(n, ready) ==
    /\ task[n] = "sending"
    /\ IF chClosed
       THEN /\ wpanic' = TRUE
            /\ task' = [task EXCEPT ![n] = "done"]
            /\ wg' = wg
       ELSE /\ ready
            /\ wpanic' = wpanic
            /\ task' = [task EXCEPT ![n] = "done"]
            /\ wg' = wg - 1
    /\ UNCHANGED <<roots, cur, wpc, wnext, closer, chClosed, closes, errc>>

\* CloserReady, were c closed without waiting for the goroutines
CloserReady_NoWait == TRUE

\* wg.Wait() returns
CloserReady == wg = 0

\* the closing goroutine: wg.Wait(); close(c)
CloserClose ==
    /\ closer = "waiting"
    /\ CloserReady
    /\ closer' = "done"
    /\ closes' = closes + 1
    /\ chClosed' = TRUE
    /\ wpanic' = (wpanic \/ chClosed)
    /\ UNCHANGED <<roots, cur, wpc, wnext, task, wg, errc>>

----------------------------------------------------------------------------
(* findFiles with the consumer of TestFindFiles: one root, and a loop that *)
(* ranges over c (the error channel is not read)                           *)

MaxNodes == 3

NumProfiles == Len(Profiles)

\* Trees with k entries under the root, numbered in the order WalkDir visits
\* them: an entry's parent is a directory on the path to the entry before
\* it, and the entries of one directory have different names.
TreesOfSize(k) ==
    { t \in [stat : {TRUE}, prof : [1..k -> 1..NumProfiles], parent : [1..k -> 0..(k - 1)]] :
        /\ \A n \in 1..k :
              /\ t.parent[n] < n
              /\ t.parent[n] # 0 => Profiles[t.prof[t.parent[n]]].kind = "dir"
              /\ n > 1 => t.parent[n] \in ({n - 1} \cup Ancestors(t, n - 1))
        /\ \A n, m \in 1..k :
              (n # m /\ t.parent[n] = t.parent[m])
                  => Profiles[t.prof[n]].name # Profiles[t.prof[m]].name }

NoTree == [stat |-> FALSE, prof |-> <<>>, parent |-> <<>>]

WalkTrees == {NoTree} \cup UNION {TreesOfSize(k) : k \in 0..MaxNodes}

ClassifyIdle ==
    /\ cpath = <<>> /\ cresult = NoResult /\ cpc = "idle" /\ ctarget = <<>> /\ call = NoCall
    /\ CreateIdle

WalkInit ==
    /\ SkipTitleCaser = FALSE
    /\ ClassifyIdle
    /\ roots \in {<<t>> : t \in WalkTrees}
    /\ cur = 0 /\ wpc = "call" /\ wnext = 0 /\ task = <<>>
    /\ wg = 0 /\ closer = "none" /\ chClosed = FALSE /\ closes = 0
    /\ wpanic = FALSE /\ errc = <<>>
    /\ recv = [n \in 0..MaxNodes + 1 |-> 0]
    /\ tpc = "call" /\ cancelled = FALSE
    /\ LinkIdle

\* media, _ := findFiles(root, ...)
TestCall ==
    /\ tpc = "call"
    /\ FindFilesCall(1)
    /\ tpc' = "ranging"
    /\ UNCHANGED <<SkipTitleCaser, classifyVars, recv, cancelled, linkVars>>

\* for m := range media: one entity is received
TestRecv ==
    /\ \E n \in DOMAIN task :
          /\ TaskSend(n, tpc = "ranging")
          /\ recv' = IF chClosed THEN recv ELSE [recv EXCEPT ![n] = @ + 1]
    /\ UNCHANGED <<SkipTitleCaser, classifyVars, tpc, cancelled, linkVars>>

\* the range loop ends: c is closed
TestRangeEnd ==
    /\ tpc = "ranging"
    /\ chClosed
    /\ tpc' = "done"
    /\ UNCHANGED <<SkipTitleCaser, classifyVars, walkVars, recv, cancelled, linkVars>>

\* what a step of findFiles leaves alone
WalkFrame == UNCHANGED <<SkipTitleCaser, classifyVars, testVars, linkVars>>

WalkNext ==
    \/ TestCall
    \/ TestRecv
    \/ TestRangeEnd
    \/ WalkInfoErr /\ WalkFrame
    \/ WalkDirSkip /\ WalkFrame
    \/ WalkDirEnter /\ WalkFrame
    \/ WalkSpawn /\ WalkFrame
    \/ WalkReturn /\ WalkFrame
    \/ (\E n \in DOMAIN task : TaskRun(n)) /\ WalkFrame
    \/ CloserClose /\ WalkFrame

SpecWalk == WalkInit /\ [][WalkNext]_vars

----------------------------------------------------------------------------
(* Claims about findFiles *)

\* a directory the walk evaluates the filters on, and some filter excludes
Pruned(r, d) ==
    LET info == InfoOf(r, d)
    IN info.kind = "dir" /\ ~info.infoErr /\ Excluded(info)

UnderPruned(r, n) == \E d \in Ancestors(roots[r], n) : Pruned(r, d)

Walking == cur # 0 /\ roots[cur].stat

FileNodes == 1..TreeSize(Tree)

\* C1: no file beneath a directory that a filter excludes is ever sent on
\* the output stream: its goroutine is not even started.
C1_PrunedSubtreeSilent ==
    Walking => \A n \in FileNodes : UnderPruned(cur, n) => task[n] = "none" /\ recv[n] = 0

\* the walk is over, a file that passes every filter and classifies lies
\* under an excluded directory, and another file was delivered
C1_Witness ==
    /\ Walking /\ tpc = "done"
    /\ \E n \in FileNodes : UnderPruned(cur, n) /\ ~InfoOf(cur, n).infoErr /\ TaskKeeps(cur, n)
    /\ \E m \in FileNodes : recv[m] = 1

\* C2: c is closed once, only after every per-file goroutine has finished;
\* no goroutine sends on the closed c, and every goroutine that had an
\* entity to send has had it received.
C2_ClosedOnceAfterTasks ==
    /\ ~wpanic
    /\ closes <= 1
    /\ Walking =>
          /\ chClosed => (wpc = "returned" /\ \A n \in DOMAIN task : task[n] \in {"none", "done"})
          /\ \A n \in FileNodes : (task[n] = "done" /\ TaskKeeps(cur, n)) => recv[n] = 1

\* c is closed after two entities were sent and received
C2_Witness ==
    /\ Walking /\ chClosed /\ closes = 1
    /\ \E n, m \in FileNodes : n # m /\ recv[n] = 1 /\ recv[m] = 1

\* the files findFiles is to deliver: regular, stat-able, under no pruned
\* directory, excluded by no filter, classified without error
Expected(r, n) ==
    LET info == InfoOf(r, n)
    IN /\ info.kind = "file" /\ ~info.infoErr
       /\ ~UnderPruned(r, n)
       /\ ~Excluded(info)
       /\ ~NewLinkable(PathOf(r, n)).err

\* C3: for a root that can be stat'ed, no file is delivered twice, only
\* expected files are delivered, all of them are by the time c is closed,
\* and no error is reported.
C3_DeliversExactlyExpected ==
    Walking =>
        /\ \A n \in FileNodes : recv[n] <= (IF Expected(cur, n) THEN 1 ELSE 0)
        /\ chClosed => \A n \in FileNodes : recv[n] = (IF Expected(cur, n) THEN 1 ELSE 0)
        /\ \A i \in 1..Len(errc) : errc[i] = "nil"

\* c is closed, one file was delivered and an unclassifiable regular file
\* that passes the filters was dropped
C3_Witness ==
    /\ Walking /\ chClosed
    /\ \E n \in FileNodes : recv[n] = 1
    /\ \E m \in FileNodes :
          /\ InfoOf(cur, m).kind = "file" /\ ~InfoOf(cur, m).infoErr
          /\ ~Excluded(InfoOf(cur, m)) /\ NewLinkable(PathOf(cur, m)).err
          /\ task[m] = "done" /\ recv[m] = 0

\* the path has no episode marker and neither the base name nor the parent
\* directory name has a year
NoMarkerNoYear(path) ==
    /\ ~episodeExpr(path).found
    /\ ~dateExpr(BaseNameOf(path)).found
    /\ ~dateExpr(Base(SplitDir(path))).found

\* C6: a file whose path has no episode marker and no year in its base name
\* or parent directory name fails classification: findFiles neither sends
\* nor delivers an entity for it.
C6_NoYearNoEntity ==
    Walking =>
        \A n \in FileNodes :
            (InfoOf(cur, n).kind = "file" /\ NoMarkerNoYear(PathOf(cur, n)))
                => (task[n] # "sending" /\ recv[n] = 0)

----------------------------------------------------------------------------
(* The TMDB client: request URLs, fetch2's cache, the catalog's answers *)

\* The URL of a search request.  url.QueryEscape is one-to-one and the
\* options map holds at most the year, so the URL is given by the endpoint,
\* the query and the year option (0: no year option).
SearchURL(kind, query, year) ==
    [kind |-> kind, query |-> query, year |-> year, id |-> 0, season |-> 0, episode |-> 0]

\* the URL of an episode details request
EpisodeURL(id, season, episode) ==
    [kind |-> "episode", query |-> <<>>, year |-> 0, id |-> id, season |-> season,
     episode |-> episode]

\* the entries of a search response: Name or Title, ID, ReleaseDate.Year()
\* (1 when release_date does not parse) and OriginCountry.  A name is any
\* string of the response's JSON; the second one has ".." elements.
Result1 == [name |-> <<"T","1">>, id |-> 1, year |-> 2001, countries |-> << <<"U","S">> >>]

Result2 == [name |-> <<".",".","/",".",".">>, id |-> 2, year |-> 1, countries |-> << <<"J","P">> >>]

\* the Results of the search responses the catalog may give
SearchResults == {<<>>, <<Result1>>, <<Result2, Result1>>}

NoShow == [name |-> <<>>, id |-> 0, year |-> 0, countries |-> <<>>]

\* what http.DefaultClient.Do and the reading of the body can come to
SearchOutcomes == {"transport", "rate limited", "unreadable", "malformed", "ok"}

\* an episode details response is a 2xx with a name, or a 404 whose JSON
\* body has no name
FetchOutcomes == SearchOutcomes \cup {"not found"}

EpisodeName == <<"E","1">>

\* CacheHit, were the cache never consulted
CacheHit_Never(c, u) == FALSE

\* cached, ok := cache[r.url]
CacheHit(c, u) == \E e \in c : e.url = u

CacheGet(c, u) == (CHOOSE e \in c : e.url = u).val

\* CacheStore, were the response not kept
CacheStore_Skip(c, u, v) == c

\* cache[r.url] = r.container
CacheStore(c, u, v) == {e \in c : e.url # u} \cup {[url |-> u, val |-> v]}

\* Cacheable, were the container kept whatever came of the request
Cacheable_Always(outcome) == TRUE

\* fetch2 reaches cache[r.url] = r.container only past every error's
\* continue
Cacheable(outcome) == outcome = "ok"

\* Wait, were no token taken
Wait_NoToken(l) == l

\* limiter.Wait(ctx) with the background context: it returns once the bucket
\* holds a token for the caller, which it takes.  When that is, is a matter
\* of time; the model keeps the number of tokens handed out.
Wait(l) == [l EXCEPT !.taken = @ + 1]

----------------------------------------------------------------------------
(* tmdbLookup and LinkFromFiles *)

\* the title a lookup of m searches the catalog for
RawTitle(m) == IF m.type = "episode" THEN m.series ELSE m.title

\* titleVariants, were the shortest variant the first
titleVariants_ShortestFirst(t, max) ==
    LET items == Split(t, " ")
        n == Min({max, Len(items)})
    IN [i \in 1..n |-> Join(SubSeq(items, 1, Len(items) - (n - i)), " ")]

titleVariants(t, max) ==
    LET items == Split(t, " ")
        n == Min({max, Len(items)})
    IN [i \in 1..n |-> Join(SubSeq(items, 1, Len(items) - (i - 1)), " ")]

\* MovieVariants, were every shorter title tried, down to the first word
MovieVariants_Every(m) == titleVariants(m.title, Len(Split(m.title, " ")))

\* the titles tmdbLookup ranges over for a movie
MovieVariants(m) == titleVariants(m.title, (Count(m.title, " ") \div 2) + 1)

\* the request SearchMovie(i, searchOpts) makes for the vi-th variant
MovieRequest(m, vi) ==
    SearchURL("movie", MovieVariants(m)[vi], IF YearValid(m.year) THEN m.year ELSE 0)

\* the request SearchTV makes for SearchEpisode
TVRequest(m) == SearchURL("tv", m.series, IF m.year > 0 THEN m.year ELSE 0)

RequestURL(e) == IF e.m.type = "episode" THEN TVRequest(e.m) ELSE MovieRequest(e.m, e.vi)

\* m.Countries: tmdbLookup copies the show's Name and the episode's Name
\* into the entity and drops OriginCountry, so that no entity carries a
\* country
Countries(m) == <<>>

countryFilterExclude(f, m) == \E i \in 1..Len(Countries(m)) : Countries(m)[i] \in f.countries

\* the directory of --dest
Destination == <<"/","d">>

\* the codes of --exclude-countries
ExcludeCountries == << <<"U","S">> >>

\* WithCountryFilter: the filter keeps the codes in lower case
WithCountryFilter(codes) == [countries |-> {ToLowerStr(codes[i]) : i \in 1..Len(codes)}]

\* options.mediaFilters
mediaFilters == << WithCountryFilter(ExcludeCountries) >>

\* LinkFromMedia, were the source taken from the entity's title
LinkFromMedia_SrcFromTitle(m, destdir) ==
    [Src |-> IF m.type = "episode" THEN m.series ELSE m.title,
     Target |-> pathJoin(destdir, Target(m))]

\* LinkFromMedia: Src is l.Path(), Target is l.Target() joined to destdir
LinkFromMedia(m, destdir) == [Src |-> m.path, Target |-> pathJoin(destdir, Target(m))]

\* the end of the entity's goroutine after the lookup: the media filters,
\* then the send on linkc
AfterLookup(e) ==
    IF \E i \in 1..Len(mediaFilters) : countryFilterExclude(mediaFilters[i], e.m)
    THEN [e EXCEPT !.st = "done"]
    ELSE [e EXCEPT !.st = "send"]

\* SearchFailed, were an empty response not an error
SearchFailed_ErrOnly(err, results) == err

\* SearchMovies and SearchTV report an error: the request failed or the
\* response has no results
SearchFailed(err, results) == err \/ Len(results) = 0

\* <-movies, <-res: the first result, or the zero value from the closed
\* channel
First(results) == IF results = <<>> THEN NoShow ELSE results[1]

\* the requester from fetch2's reply to its next channel operation or
\* request
AfterSearch(e, err, results) ==
    IF e.m.type = "episode"
    THEN IF SearchFailed(err, results)
         THEN AfterLookup([e EXCEPT !.res = "failed"])
         ELSE [e EXCEPT !.st = "fetch", !.show = First(results)]
    ELSE IF SearchFailed(err, results)
         THEN IF e.vi < Len(MovieVariants(e.m))
              THEN [e EXCEPT !.st = "request", !.vi = @ + 1]
              ELSE AfterLookup([e EXCEPT !.res = "failed"])
         ELSE AfterLookup([e EXCEPT !.m.title = First(results).name,
                                    !.m.year = IF YearValid(@) THEN @ ELSE First(results).year,
                                    !.res = "ok"])

\* fetch returns to SearchEpisode and tmdbLookup: on an error the entity is
\* left alone, otherwise it takes the show's name and the episode's name
AfterFetch(e, outcome) ==
    IF outcome \in {"ok", "not found"}
    THEN AfterLookup([e EXCEPT !.m.series = e.show.name,
                               !.m.title = IF outcome = "ok" THEN EpisodeName ELSE <<>>,
                               !.res = IF outcome = "ok" THEN "ok" ELSE "failed"])
    ELSE AfterLookup([e EXCEPT !.res = "failed"])

\* the raw titles some resolution has succeeded for
Resolved == {p.raw : p \in canon}

\* one HTTP request, as the history keeps it
NetEntry(url, e, outcome) ==
    [url |-> url, late |-> e.late, outcome |-> outcome,
     again |-> \E r \in netlog : r.url = url /\ r.outcome = "ok"]

\* the entity's goroutine makes a step to e2; wg.Done() when it returns
EntStep(id, e2) ==
    /\ ent' = [ent EXCEPT ![id] = e2]
    /\ lwg' = IF e2.st = "done" THEN lwg - 1 ELSE lwg

EntIds(rs) == UNION { {<<r, n>> : n \in 1..TreeSize(rs[r])} : r \in 1..Len(rs) }

\* an entity nothing has been done for; got is the entity as it came out of
\* media, and reqs the history of the catalog requests made on its behalf:
\* [url, outcome, n], outcome "hit" for an answer from the cache, n the
\* number of results
NoEntity ==
    [st |-> "none", m |-> NoResult, vi |-> 0, show |-> NoShow, late |-> FALSE, res |-> "none",
     got |-> NoResult, reqs |-> <<>>]

\* the entity of n's goroutine, as LinkFromFiles receives it
Received(m) == [NoEntity EXCEPT !.st = "spawned", !.m = m, !.got = m]

\* e with one more request in its history
Asked(e, url, outcome, n) ==
    [e EXCEPT !.reqs = Append(@, [url |-> url, outcome |-> outcome, n |-> n])]

\* AfterErr, were the loop left at the first root that cannot be stat'ed
AfterErr_Break(s) == Len(roots)

\* the loop over the sources after a failed findFiles: continue
AfterErr(s) == s + 1

\* media, errc := findFiles(src, options.fileFilters...)
OrchFindFiles ==
    /\ ~crashed /\ opc = "loop" /\ src < Len(roots)
    /\ FindFilesCall(src + 1)
    /\ opc' = "errc"
    /\ UNCHANGED <<SkipTitleCaser, classifyVars, testVars, limiter, emitted, opts, src, ent, lwg, lcloser,
                   linkClosed, linked, srv, cache, crashed, netlog, canon>>

\* err := <-errc: an error is printed and the loop goes on to the next
\* source, nil starts the range over media
OrchErr ==
    /\ ~crashed /\ opc = "errc" /\ Len(errc) > 0
    /\ errc' = Tail(errc)
    /\ IF Head(errc) # "nil"
       THEN opc' = "loop" /\ src' = AfterErr(src)
       ELSE opc' = "ranging" /\ src' = src
    /\ UNCHANGED <<SkipTitleCaser, classifyVars, testVars, limiter, emitted, roots, cur, wpc, wnext, task, wg,
                   closer, chClosed, closes, wpanic, opts, ent, lwg, lcloser, linkClosed,
                   linked, srv, cache, crashed, netlog, canon>>

\* for m := range media: an entity is received, wg.Add(1), its goroutine
\* is started
OrchRecv ==
    /\ ~crashed
    /\ \E n \in DOMAIN task :
          /\ TaskSend(n, opc = "ranging")
          /\ IF chClosed
             THEN UNCHANGED <<ent, lwg>>
             ELSE /\ ent' = [ent EXCEPT ![<<cur, n>>] = Received(NewLinkable(PathOf(cur, n)))]
                  /\ lwg' = lwg + 1
    /\ UNCHANGED <<SkipTitleCaser, classifyVars, testVars, limiter, emitted, opts, opc, src, lcloser,
                   linkClosed, linked, srv, cache, crashed, netlog, canon>>

\* media is closed: the range ends and the loop goes on to the next source
OrchRangeEnd ==
    /\ ~crashed /\ opc = "ranging" /\ chClosed
    /\ opc' = "loop"
    /\ src' = src + 1
    /\ UNCHANGED <<SkipTitleCaser, classifyVars, testVars, limiter, emitted, walkVars, opts, ent, lwg, lcloser,
                   linkClosed, linked, srv, cache, crashed, netlog, canon>>

\* the loop over the sources is over: start the goroutine that closes linkc
OrchCloser ==
    /\ ~crashed /\ opc = "loop" /\ src >= Len(roots)
    /\ opc' = "done"
    /\ lcloser' = "waiting"
    /\ UNCHANGED <<SkipTitleCaser, classifyVars, testVars, limiter, emitted, walkVars, opts, src, ent, lwg,
                   linkClosed, linked, srv, cache, crashed, netlog, canon>>

\* wg.Wait(); close(linkc)
LinkCloserClose ==
    /\ ~crashed /\ lcloser = "waiting" /\ lwg = 0
    /\ lcloser' = "done"
    /\ linkClosed' = TRUE
    /\ UNCHANGED <<SkipTitleCaser, classifyVars, testVars, limiter, emitted, walkVars, opts, opc, src, ent, lwg,
                   linked, srv, cache, crashed, netlog, canon>>

\* TypeExcluded, were no type ever excluded
TypeExcluded_Never(m) == FALSE

\* switch m.(type): the entity's type is a key of options.excludeTypes
TypeExcluded(m) == m.type \in opts.excludeTypes

\* the entity's goroutine starts: the type exclusion, then tmdbLookup up to
\* its first request when there is a client
EntStart(id) ==
    /\ ~crashed /\ ent[id].st = "spawned"
    /\ LET e == ent[id]
       IN EntStep(id, IF TypeExcluded(e.m) THEN [e EXCEPT !.st = "done"]
                      ELSE IF opts.tmdb
                           THEN [e EXCEPT !.st = "request", !.vi = 1,
                                          !.late = RawTitle(e.m) \in Resolved]
                           ELSE AfterLookup(e))
    /\ UNCHANGED <<SkipTitleCaser, classifyVars, testVars, limiter, emitted, walkVars, opts, opc, src, lcloser,
                   linkClosed, linked, srv, cache, crashed, netlog, canon>>

\* requestc <- request{...}: fetch2 receives the request
SrvTake(id) ==
    /\ ~crashed /\ srv.st = "idle" /\ ent[id].st = "request"
    /\ srv' = [st |-> "busy", id |-> id, url |-> RequestURL(ent[id])]
    /\ ent' = [ent EXCEPT ![id].st = "waiting"]
    /\ UNCHANGED <<SkipTitleCaser, classifyVars, testVars, limiter, emitted, walkVars, opts, opc, src, lwg,
                   lcloser, linkClosed, linked, cache, crashed, netlog, canon>>

\* the resolution of a movie succeeded with this search
MovieResolved(e, err, results) == e.m.type = "movie" /\ ~SearchFailed(err, results)

\* fetch2 replies and the requester goes on
Reply(outcome, err, results) ==
    LET e == Asked(ent[srv.id], srv.url, outcome, Len(results))
    IN /\ EntStep(srv.id, AfterSearch(e, err, results))
       /\ canon' = IF MovieResolved(e, err, results)
                   THEN canon \cup {[id |-> srv.id, raw |-> e.m.title, url |-> srv.url,
                                     title |-> First(results).name]}
                   ELSE canon
       /\ srv' = NoRequest

\* fetch2 finds the URL in its cache: the container is set from it
SrvHit ==
    /\ ~crashed /\ srv.st = "busy" /\ CacheHit(cache, srv.url)
    /\ Reply("hit", FALSE, CacheGet(cache, srv.url))
    /\ UNCHANGED <<SkipTitleCaser, classifyVars, testVars, limiter, emitted, walkVars, opts, opc, src, lcloser,
                   linkClosed, linked, cache, crashed, netlog>>

\* fetch2 does not find the URL in its cache: limiter.Wait(ctx)
SrvWait ==
    /\ ~crashed /\ srv.st = "busy" /\ ~CacheHit(cache, srv.url)
    /\ limiter' = Wait(limiter)
    /\ srv' = [srv EXCEPT !.st = "limited"]
    /\ UNCHANGED <<SkipTitleCaser, classifyVars, testVars, emitted, walkVars, opts, opc, src,
                   ent, lwg, lcloser, linkClosed, linked, cache, crashed, netlog, canon>>

\* fetch2 asks the catalog: an error is replied, a decoded response is
\* cached and replied
SrvMiss ==
    /\ ~crashed /\ srv.st = "limited"
    /\ \E outcome \in SearchOutcomes, results \in SearchResults :
          /\ netlog' = netlog \cup {NetEntry(srv.url, ent[srv.id], outcome)}
          /\ cache' = IF Cacheable(outcome) THEN CacheStore(cache, srv.url, results)
                       ELSE cache
          /\ IF outcome = "ok"
             THEN Reply(outcome, FALSE, results)
             ELSE results = <<>> /\ Reply(outcome, TRUE, results)
    /\ UNCHANGED <<SkipTitleCaser, classifyVars, testVars, limiter, emitted, walkVars, opts, opc, src, lcloser,
                   linkClosed, linked, crashed>>

\* fetch(query, &ep) for the episode details, up to limiter.Wait(ctx)
EpWait(id) ==
    /\ ~crashed /\ ent[id].st = "fetch"
    /\ limiter' = Wait(limiter)
    /\ ent' = [ent EXCEPT ![id].st = "fetching"]
    /\ UNCHANGED <<SkipTitleCaser, classifyVars, testVars, emitted, walkVars, opts, opc, src,
                   lwg, lcloser, linkClosed, linked, srv, cache, crashed, netlog, canon>>

\* fetch asks the catalog: after a transport error res is nil and
\* res.StatusCode panics
EpFetch(id) ==
    /\ ~crashed /\ ent[id].st = "fetching"
    /\ \E outcome \in FetchOutcomes :
          LET url == EpisodeURL(ent[id].show.id, ent[id].m.season, ent[id].m.episode)
              e == Asked(ent[id], url, outcome, 0)
          IN /\ netlog' = netlog \cup {NetEntry(url, e, outcome)}
             /\ IF outcome = "transport"
                THEN /\ crashed' = TRUE
                     /\ ent' = [ent EXCEPT ![id] = [e EXCEPT !.st = "panic", !.res = "failed"]]
                     /\ UNCHANGED <<lwg, canon>>
                ELSE /\ crashed' = crashed
                     /\ EntStep(id, AfterFetch(e, outcome))
                     /\ canon' = IF outcome = "ok"
                                 THEN canon \cup {[id |-> id, raw |-> e.m.series,
                                                   url |-> TVRequest(e.m),
                                                   title |-> e.show.name]}
                                 ELSE canon
    /\ UNCHANGED <<SkipTitleCaser, classifyVars, testVars, limiter, emitted, walkVars, opts, opc, src, lcloser,
                   linkClosed, linked, srv, cache>>

\* linkc <- LinkFromMedia(m, options.dest): the caller receives the Link; a
\* send on the closed linkc panics
LinkSend(id) ==
    /\ ~crashed /\ ent[id].st = "send"
    /\ IF linkClosed
       THEN crashed' = TRUE /\ UNCHANGED <<ent, lwg, linked, emitted>>
       ELSE /\ crashed' = crashed
            /\ linked' = [linked EXCEPT ![id] = @ + 1]
            /\ emitted' = [emitted EXCEPT ![id] = Append(@, LinkFromMedia(ent[id].m, opts.dest))]
            /\ EntStep(id, [ent[id] EXCEPT !.st = "done"])
    /\ UNCHANGED <<SkipTitleCaser, classifyVars, testVars, limiter, walkVars, opts, opc, src, lcloser,
                   linkClosed, srv, cache, netlog, canon>>

----------------------------------------------------------------------------
(* LinkFromFiles over a few source roots, with a caller that ranges over *)
(* linkc                                                                  *)

MaxRoots == 2

\* how many Links the link command ranges over
MaxLinks == 2

\* a movie with a year; a movie without; an episode beside an excluded
\* directory and an entry whose Info() fails; an episode of the same series
\* with a year
LinkTrees ==
    { NoTree,
      [stat |-> TRUE, prof |-> <<13>>, parent |-> <<0>>],
      [stat |-> TRUE, prof |-> <<6>>, parent |-> <<0>>],
      [stat |-> TRUE, prof |-> <<2, 5, 12, 7>>, parent |-> <<0, 1, 0, 0>>],
      [stat |-> TRUE, prof |-> <<14>>, parent |-> <<0>>] }

LinkInit ==
    /\ SkipTitleCaser = FALSE
    /\ ClassifyIdle
    /\ roots \in UNION {[1..k -> LinkTrees] : k \in 1..MaxRoots}
    /\ cur = 0 /\ wpc = "call" /\ wnext = 0 /\ task = <<>>
    /\ wg = 0 /\ closer = "none" /\ chClosed = FALSE /\ closes = 0
    /\ wpanic = FALSE /\ errc = <<>>
    /\ recv = <<>> /\ tpc = "idle" /\ cancelled = FALSE
    /\ opts \in [tmdb : BOOLEAN, excludeTypes : SUBSET {"movie", "episode"}, dest : {Destination}]
    /\ opc = "loop" /\ src = 0
    /\ ent = [id \in EntIds(roots) |-> NoEntity]
    /\ lwg = 0 /\ lcloser = "none" /\ linkClosed = FALSE
    /\ linked = [id \in EntIds(roots) |-> 0]
    /\ srv = NoRequest /\ cache = {} /\ crashed = FALSE
    /\ netlog = {} /\ canon = {}
    /\ limiter = NewLimiter
    /\ emitted = [id \in EntIds(roots) |-> <<>>]

\* what a step of findFiles leaves alone, while the process lives
LinkWalkFrame == ~crashed /\ WalkFrame

LinkNext ==
    \/ OrchFindFiles
    \/ OrchErr
    \/ OrchRecv
    \/ OrchRangeEnd
    \/ OrchCloser
    \/ LinkCloserClose
    \/ WalkInfoErr /\ LinkWalkFrame
    \/ WalkDirSkip /\ LinkWalkFrame
    \/ WalkDirEnter /\ LinkWalkFrame
    \/ WalkSpawn /\ LinkWalkFrame
    \/ WalkReturn /\ LinkWalkFrame
    \/ (\E n \in DOMAIN task : TaskRun(n)) /\ LinkWalkFrame
    \/ CloserClose /\ LinkWalkFrame
    \/ \E id \in DOMAIN ent : EntStart(id)
    \/ \E id \in DOMAIN ent : SrvTake(id)
    \/ SrvHit
    \/ SrvWait
    \/ SrvMiss
    \/ \E id \in DOMAIN ent : EpWait(id)
    \/ \E id \in DOMAIN ent : EpFetch(id)
    \/ \E id \in DOMAIN ent : LinkSend(id)

SpecLink == LinkInit /\ [][LinkNext]_vars

\* The caller raises its cancellation signal.  LinkFromFiles takes its
\* options only, no context and no done channel ("TODO: accept done
\* channel"), and neither it nor findFiles reads any signal: the raising
\* changes nothing else.
Cancel ==
    /\ ~crashed /\ ~cancelled /\ ~linkClosed /\ opc # "idle"
    /\ cancelled' = TRUE
    /\ UNCHANGED <<SkipTitleCaser, classifyVars, recv, tpc, walkVars, linkVars>>

CancelNext == LinkNext \/ Cancel

\* the runs with a TMDB client and no excluded type
CancelInit == LinkInit /\ opts.tmdb /\ opts.excludeTypes = {}

SpecCancel == CancelInit /\ [][CancelNext]_vars

----------------------------------------------------------------------------
(* Claims about LinkFromFiles and the resolver *)

\* what the classifier parsed for entity id
Parsed(id) == NewLinkable(PathOf(id[1], id[2]))

\* the entities LinkFromFiles is to emit a Link for
LinkExpected(id) ==
    /\ roots[id[1]].stat
    /\ Expected(id[1], id[2])
    /\ Parsed(id).type \notin opts.excludeTypes

\* C4: findFiles on a root that cannot be stat'ed returns the closed, empty
\* c and one error on errc; LinkFromFiles reads the error and goes on with
\* the next source, so that when linkc is closed the Links of every other
\* root have been delivered, and none for the root that failed.
C4_StatFailureAbandonsOnlyThatRoot ==
    /\ (cur # 0 /\ ~roots[cur].stat) =>
          /\ chClosed /\ closes = 1 /\ closer = "none" /\ wpc = "returned"
          /\ \A n \in DOMAIN task : task[n] = "none"
          /\ errc = (IF opc = "errc" THEN <<"stat failed">> ELSE <<>>)
    /\ \A id \in DOMAIN ent : ~roots[id[1]].stat => ent[id].st = "none"
    /\ linkClosed =>
          /\ src = Len(roots)
          /\ \A id \in DOMAIN linked : linked[id] = (IF LinkExpected(id) THEN 1 ELSE 0)

\* linkc is closed after a first root that could not be stat'ed and a second
\* root whose Link was delivered
C4_Witness ==
    /\ linkClosed /\ Len(roots) = 2
    /\ ~roots[1].stat /\ roots[2].stat
    /\ \E id \in DOMAIN linked : id[1] = 2 /\ linked[id] = 1

\* C7: an entity whose resolution failed has the fields the classifier
\* parsed, and its Link is emitted: when the run is over, by the close of
\* linkc or by a panic, the caller has received it.
C7_FailedResolutionKeepsParsed ==
    \A id \in DOMAIN ent :
        ent[id].res = "failed" =>
            /\ ent[id].m = Parsed(id)
            /\ (linkClosed \/ crashed) => linked[id] = 1

\* C8: a transport error on a catalog request never crashes the process.
C8_TransportErrorContained ==
    (\E r \in netlog : r.outcome = "transport") => ~crashed

IsSearch(url) == url.kind \in {"movie", "tv"}

NetCount(e) == Cardinality({i \in 1..Len(e.reqs) : e.reqs[i].outcome # "hit"})

RECURSIVE NetTotal(_)
NetTotal(ids) ==
    IF ids = {} THEN 0
    ELSE LET id == CHOOSE i \in ids : TRUE
         IN NetCount(ent[id]) + NetTotal(ids \ {id})

\* the goroutines that are between limiter.Wait and http.DefaultClient.Do
Holding ==
    (IF srv.st = "limited" THEN 1 ELSE 0)
        + Cardinality({id \in DOMAIN ent : ent[id].st = "fetching"})

\* C11: every request that goes to the catalog (movie search, series search,
\* episode details) has taken a token from the one limiter before, and an
\* answer from the cache takes none: the tokens handed out are those of the
\* requests sent and of the goroutines about to send.
C11_TokenBeforeEveryRequest ==
    limiter.taken = NetTotal(DOMAIN ent) + Holding

\* a request was answered from the cache after two requests that went to the
\* catalog, a search and an episode's details
C11_Witness ==
    /\ \E id \in DOMAIN ent : \E i \in 1..Len(ent[id].reqs) : ent[id].reqs[i].outcome = "hit"
    /\ \E id \in DOMAIN ent : \E i \in 1..Len(ent[id].reqs) :
          ent[id].reqs[i].url.kind = "episode"
    /\ limiter.taken >= 2

\* C12: a request answered with HTTP 429 is terminal: it is the last request
\* made on behalf of its entity (neither sent again nor followed by another
\* catalog request), and the entity keeps the fields the classifier parsed.
C12_RateLimitTerminal ==
    \A id \in DOMAIN ent :
        \A i \in 1..Len(ent[id].reqs) :
            ent[id].reqs[i].outcome = "rate limited" =>
                /\ i = Len(ent[id].reqs)
                /\ ent[id].m = Parsed(id)

\* the request had an answer with results
Answered(r) == r.outcome \in {"ok", "hit"} /\ r.n > 0

\* the words of a title without the last k of them
Shortened(words, k) == Join(SubSeq(words, 1, Len(words) - k), " ")

\* the queries made for entity e are the movie searches for these words
\* with one more trailing word dropped each time
QueriesNarrow(e, words) ==
    \A i \in 1..Len(e.reqs) :
        e.reqs[i].url.kind = "movie" /\ e.reqs[i].url.query = Shortened(words, i - 1)

\* a query for e that returned results was accepted and is the last one
FirstAccepted(e) ==
    \A i \in 1..Len(e.reqs) :
        Answered(e.reqs[i]) =>
            i = Len(e.reqs) /\ e.res = "ok" /\ e.st \in {"send", "done"}

\* C13: the i-th query made for a movie is a movie search for the parsed
\* title without its last i - 1 words, so the first is for the full title;
\* a query that returns results is accepted (the movie takes its first
\* result's title) and is the last query made for that movie.
C13_VariantsInOrderFirstAccepted ==
    \A id \in DOMAIN ent :
        (ent[id].m.type = "movie" /\ ent[id].reqs # <<>>) =>
            /\ QueriesNarrow(ent[id], Split(ent[id].got.title, " "))
            /\ FirstAccepted(ent[id])

\* a movie whose full title found nothing and whose shorter title was
\* accepted has been linked
C13_Witness ==
    \E id \in DOMAIN ent :
        /\ ent[id].m.type = "movie" /\ ent[id].st = "done" /\ linked[id] = 1
        /\ Len(ent[id].reqs) = 2
        /\ ~Answered(ent[id].reqs[1]) /\ Answered(ent[id].reqs[2])
        /\ ent[id].reqs[2].url.query # ent[id].reqs[1].url.query

\* the series search made for e failed: a request error, or no series found
SeriesFailed(e) ==
    /\ e.m.type = "episode" /\ e.reqs # <<>>
    /\ e.reqs[1].url.kind = "tv"
    /\ ~Answered(e.reqs[1])

\* C14: for an Episode whose series resolution failed, no episode-details
\* request is made: the failed series search is the only request made on
\* its behalf, and the entity goes on to the media filters unresolved.
C14_SeriesFailureSkipsDetails ==
    \A id \in DOMAIN ent :
        SeriesFailed(ent[id]) =>
            /\ Len(ent[id].reqs) = 1
            /\ ent[id].st \in {"send", "done"}
            /\ ent[id].show = NoShow

\* an Episode whose series search found no series has been linked, and
\* another one's series search failed on a request error
C14_Witness ==
    /\ \E id \in DOMAIN ent :
          /\ SeriesFailed(ent[id]) /\ ent[id].reqs[1].outcome = "ok"
          /\ ent[id].st = "done" /\ linked[id] = 1
    /\ \E id \in DOMAIN ent :
          SeriesFailed(ent[id]) /\ ent[id].reqs[1].outcome \notin {"ok", "hit"}

\* C18: for an entity of a type the configuration excludes no Link is ever
\* emitted and no catalog request is ever made: its goroutine returns at the
\* type switch, before tmdbLookup.
C18_ExcludedTypeNeverResolved ==
    \A id \in DOMAIN ent :
        (ent[id].st # "none" /\ ent[id].got.type \in opts.excludeTypes) =>
            /\ ent[id].st \in {"spawned", "done"}
            /\ ent[id].reqs = <<>>
            /\ ent[id].m = ent[id].got
            /\ linked[id] = 0 /\ emitted[id] = <<>>

\* with a client configured, the goroutine of an entity of an excluded type
\* has returned, and an entity of the other type was resolved and linked
C18_Witness ==
    /\ opts.tmdb /\ linkClosed
    /\ \E id \in DOMAIN ent : ent[id].got.type \in opts.excludeTypes /\ ent[id].st = "done"
    /\ \E id \in DOMAIN ent : ent[id].reqs # <<>> /\ linked[id] = 1

\* the catalog's origin countries of the series e was resolved to hold one
\* of the configured codes
FromExcludedCountry(e) ==
    /\ e.res = "ok"
    /\ \E i \in 1..Len(e.show.countries), j \in 1..Len(ExcludeCountries) :
          e.show.countries[i] = ExcludeCountries[j]

\* C19: no Link is emitted for a resolved entity whose origin countries, as
\* the catalog returns them, hold one of the country codes the user
\* configured.
C19_ExcludedCountryNeverLinked ==
    \A id \in DOMAIN ent : FromExcludedCountry(ent[id]) => linked[id] = 0

\* C20: every Link emitted for an entity has as Src the path at which the
\* file was discovered, and the entity's own path never changes, whether
\* its resolution succeeded, failed or was not tried.
C20_SrcIsDiscoveredPath ==
    \A id \in DOMAIN ent :
        /\ ent[id].st # "none" => ent[id].m.path = PathOf(id[1], id[2])
        /\ \A i \in 1..Len(emitted[id]) : emitted[id][i].Src = PathOf(id[1], id[2])

\* linkc is closed after a Link for an entity the catalog renamed and a
\* Link for an entity whose resolution failed
C20_Witness ==
    /\ linkClosed
    /\ \E id \in DOMAIN ent :
          emitted[id] # <<>> /\ ent[id].res = "ok" /\ ent[id].m # ent[id].got
    /\ \E id \in DOMAIN ent : emitted[id] # <<>> /\ ent[id].res = "failed"

----------------------------------------------------------------------------
(* The matcher of the search results: lookupMovie, MatchMovieSearch,       *)
(* movieDateMatch, DateMatch and BestMatchIndex                            *)

\* levenshtein.ComputeDistance
RECURSIVE ComputeDistance(_, _)
ComputeDistance(a, b) ==
    IF Len(a) = 0 THEN Len(b)
    ELSE IF Len(b) = 0 THEN Len(a)
    ELSE Min({ComputeDistance(Tail(a), b) + 1,
              ComputeDistance(a, Tail(b)) + 1,
              ComputeDistance(Tail(a), Tail(b)) + (IF Head(a) = Head(b) THEN 0 ELSE 1)})

\* dists and dMap after the loop over c: dMap[d] is the index written last
\* for the distance d
Dists(s, c) == [i \in 1..Len(c) |-> ComputeDistance(s, c[i])]

dMap(dists) ==
    [d \in {dists[i] : i \in 1..Len(dists)} |-> Max({i \in 1..Len(dists) : dists[i] = d}) - 1]

\* dists.Sort(); return dMap[dists[0]]
BestMatchIndex(s, c) ==
    dMap(Dists(s, c))[Min({Dists(s, c)[i] : i \in 1..Len(c)})]

DateMatch(d1, d2) == d1 = d2 \/ CutBefore(d1, "-") = CutBefore(d2, "-")

\* the years movieDateMatch accepts, were the release a year early accepted
\* too
Tolerance_Around == {-1, 0, 1}

\* for i := 0; i < 2; i++: parsedYear + i
Tolerance == {0, 1}

YearsMatch(parsedYear, dateYear) ==
    /\ parsedYear.ok /\ dateYear.ok
    /\ \E i \in Tolerance : parsedYear.val + i = dateYear.val

movieDateMatch(parsedDate, date) ==
    \/ parsedDate = date
    \/ YearsMatch(Atoi(CutBefore(parsedDate, "-")), Atoi(CutBefore(date, "-")))

titlePop(t) == Join(SubSeq(Split(t, " "), 1, Len(Split(t, " ")) - 1), " ")

Names(results) == [i \in 1..Len(results) |-> results[i].Title]

\* match: the results the date test keeps, by their places in the list;
\* keep[i] is the test of the i-th result
RECURSIVE MatchFrom(_, _)
MatchFrom(keep, i) ==
    IF i > Len(keep) THEN <<>>
    ELSE (IF keep[i] THEN <<i>> ELSE <<>>) \o MatchFrom(keep, i + 1)

\* the switch on len(match): nothing chosen, match[0], or the best match
\* among the names of all the results
SwitchMatch(title, results, match) ==
    [match |-> match,
     sel |-> IF Len(match) = 0 THEN 0
             ELSE IF Len(match) = 1 THEN match[1]
             ELSE BestMatchIndex(title, Names(results)) + 1]

\* the switch on len(res.Results): sel is the place of the result chosen, 0
\* when there is none
SwitchResults(title, results, keep) ==
    IF Len(results) = 0 THEN [match |-> <<>>, sel |-> 0]
    ELSE IF Len(results) = 1 THEN [match |-> <<>>, sel |-> 1]
    ELSE SwitchMatch(title, results, MatchFrom(keep, 1))

\* lookupMovie's switch for the search of title
lookupMovieSwitch(m, title, results) ==
    SwitchResults(title, results,
                  [i \in 1..Len(results) |-> movieDateMatch(m.Date, results[i].ReleaseDate)])

\* MatchMovieSearch's switch
MatchMovieSearchSwitch(m, results) ==
    SwitchResults(m.Title, results,
                  [i \in 1..Len(results) |-> DateMatch(m.Date, results[i].ReleaseDate)])

\* AfterSwitch, were the limit counted again for the shortened title
AfterSwitch_Recount(c, results, sw) ==
    IF sw.sel # 0
    THEN [c EXCEPT !.res = results, !.match = sw.match, !.sel = sw.sel,
                   !.m.Title = IF c.fn = "lookupMovie" THEN results[sw.sel].Title ELSE @,
                   !.pc = "returned"]
    ELSE IF c.fn = "lookupMovie"
         THEN [c EXCEPT !.res = <<>>, !.match = <<>>, !.sel = 0,
                        !.title = titlePop(@), !.i = @ + 1,
                        !.limit = (Count(titlePop(c.title), " ") + 1) \div 3]
         ELSE [c EXCEPT !.res = results, !.match = sw.match, !.sel = 0,
                        !.err = TRUE, !.pc = "returned"]

\* the call after the switch: a result chosen ends it, none makes
\* lookupMovie pop a word and go round again (res and match are locals of
\* the round) and MatchMovieSearch fail
AfterSwitch(c, results, sw) ==
    IF sw.sel # 0
    THEN [c EXCEPT !.res = results, !.match = sw.match, !.sel = sw.sel,
                   !.m.Title = IF c.fn = "lookupMovie" THEN results[sw.sel].Title ELSE @,
                   !.pc = "returned"]
    ELSE IF c.fn = "lookupMovie"
         THEN [c EXCEPT !.res = <<>>, !.match = <<>>, !.sel = 0,
                        !.title = titlePop(@), !.i = @ + 1]
         ELSE [c EXCEPT !.res = results, !.match = sw.match, !.sel = 0,
                        !.err = TRUE, !.pc = "returned"]

MaxResults == 3

\* the titles and dates the classifier hands over, and the catalog's
TitleA == <<"a">>

TitleAB == <<"a", "b">>

TitleB == <<"b">>

TitleABC == <<"a", " ", "b", " ", "c">>

ParsedDates == { <<"1","9","9","9">>, <<"1","9","9","9","-","0","1","-","0","2">> }

ReleaseDates ==
    { <<>>,
      <<"1","9","9","8","-","0","5","-","0","5">>,
      <<"1","9","9","9","-","0","1","-","0","2">>,
      <<"2","0","0","0","-","0","7","-","0","7">>,
      <<"2","0","0","1","-","0","1","-","0","1">> }

MovieShorts == [Title : {TitleA, TitleAB, TitleB}, ReleaseDate : ReleaseDates]

MovieSearchResults == UNION {[1..k -> MovieShorts] : k \in 0..MaxResults}

\* the lists of names BestMatchIndex is called with
Undated == {r \in MovieSearchResults : \A i \in 1..Len(r) : r[i].ReleaseDate = <<>>}

Medias == [Title : {TitleA, TitleAB, TitleABC}, Date : ParsedDates]

\* a call: m and the title it was parsed with, the title searched for, the
\* loop's i and limit, how many searches were made, and of the last search
\* the results, the match and the place of the result chosen
NewCall(fn, m) ==
    [fn |-> fn, m |-> m, parsed |-> m.Title, title |-> m.Title, i |-> 0,
     limit |-> (Count(m.Title, " ") + 1) \div 3, searches |-> 0,
     res |-> <<>>, match |-> <<>>, sel |-> 0, err |-> FALSE, pc |-> "called"]

MatchInit ==
    /\ SkipTitleCaser = FALSE
    /\ cpath = <<>> /\ cresult = NoResult /\ cpc = "idle" /\ ctarget = <<>>
    /\ CreateIdle
    /\ call \in {NewCall(fn, m) :
                    fn \in {"lookupMovie", "MatchMovieSearch", "BestMatchIndex"}, m \in Medias}
    /\ WalkIdle
    /\ LinkIdle

MatchFrame ==
    UNCHANGED <<SkipTitleCaser, cpath, cresult, cpc, ctarget, createVars, walkVars, testVars,
                linkVars>>

\* one round of lookupMovie's loop: the search fails, or its results go
\* through the switch
LookupMovieSearch ==
    /\ call.fn = "lookupMovie" /\ call.pc = "called"
    /\ call.i <= call.limit /\ call.title # <<>>
    /\ \E err \in BOOLEAN, results \in MovieSearchResults :
          IF err
          THEN results = <<>> /\ call' = [call EXCEPT !.searches = @ + 1, !.err = TRUE,
                                                      !.pc = "returned"]
          ELSE call' = AfterSwitch([call EXCEPT !.searches = @ + 1], results,
                                   lookupMovieSwitch(call.m, call.title, results))
    /\ MatchFrame

\* the loop ends: the budget is used up, or the title is empty
LookupMovieReturn ==
    /\ call.fn = "lookupMovie" /\ call.pc = "called"
    /\ call.i > call.limit \/ call.title = <<>>
    /\ call' = [call EXCEPT !.err = (call.i <= call.limit), !.pc = "returned"]
    /\ MatchFrame

MatchMovieSearch ==
    /\ call.fn = "MatchMovieSearch" /\ call.pc = "called"
    /\ \E results \in MovieSearchResults :
          call' = AfterSwitch(call, results, MatchMovieSearchSwitch(call.m, results))
    /\ MatchFrame

\* BestMatchIndex(s, c) for a title and the names of some results
BestMatchIndexCall ==
    /\ call.fn = "BestMatchIndex" /\ call.pc = "called"
    /\ \E results \in Undated :
          /\ Len(results) > 0
          /\ call' = [call EXCEPT !.res = results,
                                  !.sel = BestMatchIndex(call.title, Names(results)) + 1,
                                  !.pc = "returned"]
    /\ MatchFrame

MatchNext ==
    \/ LookupMovieSearch
    \/ LookupMovieReturn
    \/ MatchMovieSearch
    \/ BestMatchIndexCall

SpecMatch == MatchInit /\ [][MatchNext]_vars

----------------------------------------------------------------------------
(* Claims about the matcher *)

\* the year of a date of the catalog or of the classifier, -1 for no date
YearOfDate(d) == IF Len(d) < 4 THEN -1 ELSE DigitsValue(SubSeq(d, 1, 4))

\* the result's release year is the parsed year or the year after
WithinTolerance(m, movie) ==
    /\ YearOfDate(movie.ReleaseDate) # -1
    /\ YearOfDate(movie.ReleaseDate) - YearOfDate(m.Date) \in {0, 1}

Kept(c) == {c.match[k] : k \in 1..Len(c.match)}

\* C15: when a search of lookupMovie returns more than one candidate, a
\* candidate is kept if and only if its release year is the parsed year or
\* the parsed year plus one; and when exactly one is kept, it is the one
\* selected: lookupMovie returns with its title.
C15_YearFilterKeepsWithinTolerance ==
    (call.fn = "lookupMovie" /\ Len(call.res) > 1) =>
        /\ \A i \in 1..Len(call.res) :
              i \in Kept(call) <=> WithinTolerance(call.m, call.res[i])
        /\ Len(call.match) = 1 =>
              /\ call.sel = call.match[1]
              /\ call.pc = "returned" /\ ~call.err
              /\ call.m.Title = call.res[call.sel].Title

\* of three candidates, one released the year after the parsed year is the
\* only one kept and is selected; the others are a year early and two late
C15_Witness ==
    /\ call.fn = "lookupMovie" /\ call.pc = "returned"
    /\ Len(call.res) = 3 /\ Len(call.match) = 1
    /\ YearOfDate(call.res[call.sel].ReleaseDate) = YearOfDate(call.m.Date) + 1
    /\ \E i \in 1..3 : YearOfDate(call.res[i].ReleaseDate) = YearOfDate(call.m.Date) - 1
    /\ \E i \in 1..3 : YearOfDate(call.res[i].ReleaseDate) = YearOfDate(call.m.Date) + 2

\* the distance of candidate i's title to the title the classifier parsed
ParsedDistance(c, i) == ComputeDistance(c.parsed, c.res[i].Title)

\* C16: when more than one candidate remains after the year filter, the
\* one selected is one of those that remain, and none of them has a title
\* nearer (in Levenshtein distance) to the title the classifier parsed.
C16_SelectedAmongKeptNearest ==
    (call.fn \in {"lookupMovie", "MatchMovieSearch"} /\ Len(call.match) > 1) =>
        /\ call.sel \in Kept(call)
        /\ \A i \in Kept(call) : ParsedDistance(call, call.sel) <= ParsedDistance(call, i)

\* the candidates at the least distance from s
Nearest(s, names) ==
    {i \in 1..Len(names) :
        \A j \in 1..Len(names) : ComputeDistance(s, names[i]) <= ComputeDistance(s, names[j])}

\* C17: the index BestMatchIndex returns is that of a candidate at the
\* least edit distance from the query title, and of the first such
\* candidate in the list.
C17_FirstOfNearest ==
    (call.fn = "BestMatchIndex" /\ call.pc = "returned") =>
        call.sel - 1 = Min(Nearest(call.title, Names(call.res))) - 1

----------------------------------------------------------------------------
(* Claims about the Links LinkFromFiles emits *)

\* p lies under the directory root
Under(p, root) ==
    /\ Len(p) > Len(root) + 1
    /\ SubSeq(p, 1, Len(root) + 1) = root \o <<"/">>

\* C21: every Link emitted has its Target under the configured destination
\* root, for every title the classifier or the resolver places in the
\* entity.
C21_TargetUnderDestination ==
    \A id \in DOMAIN ent :
        \A i \in 1..Len(emitted[id]) : Under(emitted[id][i].Target, opts.dest)

\* the year of the answer tmdbLookup accepted for e (0: none)
ResolvedYear(e) ==
    IF e.res = "ok" /\ e.got.type = "movie"
    THEN First(CacheGet(cache, e.reqs[Len(e.reqs)].url)).year
    ELSE 0

\* the valid year parsed from the path or else resolved, 0 when neither is
EverYear(e) ==
    IF YearValid(e.got.year) THEN e.got.year
    ELSE IF YearValid(ResolvedYear(e)) THEN ResolvedYear(e)
    ELSE 0

\* movies/<title>[ (<year>)]/<file>, year 0 for no year
MovieTargetOf(title, year, file) ==
    <<"m","o","v","i","e","s","/">> \o title
    \o (IF year = 0 THEN <<>> ELSE <<" ","(">> \o Itoa(year) \o <<")">>)
    \o <<"/">> \o file

\* C25: the Link of a Movie has the target movies/<title> (<year>)/<file
\* name> under the destination when a valid year was parsed or resolved,
\* and movies/<title>/<file name> when none ever was; <file name> is the
\* name of the source file.
C25_MovieTarget ==
    \A id \in DOMAIN ent :
        \A i \in 1..Len(emitted[id]) :
            ent[id].got.type = "movie" =>
                emitted[id][i].Target =
                    pathJoin(opts.dest,
                             MovieTargetOf(ent[id].m.title, EverYear(ent[id]),
                                           InfoOf(id[1], id[2]).name))

\* linkc is closed after the Link of a movie whose year the catalog gave,
\* and the Link of a movie that never had a valid year
C25_Witness ==
    /\ linkClosed
    /\ \E id \in DOMAIN ent :
          /\ emitted[id] # <<>> /\ ent[id].got.type = "movie"
          /\ ~YearValid(ent[id].got.year) /\ YearValid(ResolvedYear(ent[id]))
    /\ \E id \in DOMAIN ent :
          /\ emitted[id] # <<>> /\ ent[id].got.type = "movie"
          /\ ent[id].res = "failed" /\ EverYear(ent[id]) = 0

----------------------------------------------------------------------------
(* Link.Create: the link command creates the Links one after the other *)

\* the directories above the path p
DirsAbove(p) == {SubSeq(p, 1, i - 1) : i \in {j \in 2..Len(p) : p[j] = "/"}}

\* something is at p
HasEntry(f, p) == p \in f.dirs \/ \E l \in f.links : l.path = p

\* Exists, were the target never found
Exists_Never(f, ln, statErr) == FALSE

\* ln.Exists(): !os.IsNotExist(err) for the error of os.Stat(ln.Target), so
\* that an error other than "not exist" (statErr) reads as existing
Exists(f, ln, statErr) == statErr \/ HasEntry(f, ln.Target)

\* the directories above the target that are not there
Missing(f, ln) == DirsAbove(ln.Target) \ f.dirs

\* os.MkdirAll(filepath.Dir(ln.Target), 0755) that creates the first made
\* of the missing directories, from the top
MkdirAll(f, ln, made) ==
    [f EXCEPT !.dirs = @ \cup {d \in Missing(f, ln) :
                                 Cardinality({x \in Missing(f, ln) : Len(x) < Len(d)}) < made}]

\* os.Link(ln.Src, ln.Target) succeeds: the parent is there, nothing is at
\* the target, and the source can be linked (linkOK)
CanLink(f, ln, linkOK) == linkOK /\ Missing(f, ln) = {} /\ ~HasEntry(f, ln.Target)

Link(f, ln) == [f EXCEPT !.links = @ \cup {[path |-> ln.Target, src |-> ln.Src]}]

\* ln.Create(): the file system after it and what it printed
CreateOf(f, ln, statErr, made, linkOK) ==
    IF Exists(f, ln, statErr) THEN [fs |-> f, report |-> "exists"]
    ELSE IF made < Cardinality(Missing(f, ln))
    THEN [fs |-> MkdirAll(f, ln, made), report |-> "mkdir error"]
    ELSE IF ~CanLink(MkdirAll(f, ln, made), ln, linkOK)
    THEN [fs |-> MkdirAll(f, ln, made), report |-> "link error"]
    ELSE [fs |-> Link(MkdirAll(f, ln, made), ln), report |-> "created"]

\* the paths of the files the Links are made for
CreatePaths ==
    { <<"/","a","/">> \o Profiles[5].name, <<"/","b","/">> \o Profiles[5].name,
      <<"/","a","/">> \o Profiles[6].name }

\* the Links LinkFromFiles makes for them
CreateLinks == {LinkFromMedia(NewLinkable(q), Destination) : q \in CreatePaths}

\* the directories of the destination that are there at the start: none,
\* the destination, or all that the first Link needs
StartDirs(ln) ==
    { {}, {Destination}, DirsAbove(ln.Target) }

\* what is at the first Link's target at the start: nothing, or a file
StartLinks(ln, dirs) ==
    IF dirs = DirsAbove(ln.Target)
    THEN { {}, {[path |-> ln.Target, src |-> <<"/","o">>]} }
    ELSE { {} }

CreateInit ==
    /\ SkipTitleCaser = FALSE
    /\ cpath = <<>> /\ cresult = NoResult /\ cpc = "idle" /\ ctarget = <<>> /\ call = NoCall
    /\ WalkIdle
    /\ LinkIdle
    /\ lns \in [1..MaxLinks -> CreateLinks]
    /\ \E dirs \in StartDirs(lns[1]) :
           \E links \in StartLinks(lns[1], dirs) : fs = [dirs |-> dirs, links |-> links]
    /\ creates = <<>>

\* l.Create() for the next Link of the range
Create ==
    /\ Len(creates) < Len(lns)
    /\ \E statErr \in BOOLEAN, linkOK \in BOOLEAN :
         \E made \in 0..Cardinality(Missing(fs, lns[Len(creates) + 1])) :
            /\ fs' = CreateOf(fs, lns[Len(creates) + 1], statErr, made, linkOK).fs
            /\ creates' = Append(creates,
                   [ln |-> lns[Len(creates) + 1], before |-> fs, after |-> fs',
                    report |-> CreateOf(fs, lns[Len(creates) + 1], statErr, made, linkOK).report])
    /\ UNCHANGED <<SkipTitleCaser, cpath, cresult, cpc, ctarget, call, lns, walkVars, testVars,
                   linkVars>>

CreateNext == Create

SpecCreate == CreateInit /\ [][CreateNext]_vars

\* the links at the path p
LinksAt(f, p) == {l \in f.links : l.path = p}

SameTarget(i, j) == i < j /\ creates[i].ln.Target = creates[j].ln.Target

----------------------------------------------------------------------------
(* Claims about cancellation *)

\* C26: once the cancellation signal is raised no new per-file task is
\* enqueued: neither findFiles nor LinkFromFiles makes another wg.Add(1).
C26_NoNewTaskAfterCancel == [][cancelled => (wg' <= wg /\ lwg' <= lwg)]_vars

----------------------------------------------------------------------------
(* Claims about fetch2's cache and concurrent resolutions *)

\* some request with this URL has been answered by the catalog and decoded
RepliedOK(url) ==
    \E id \in DOMAIN ent :
        \E i \in 1..Len(ent[id].reqs) :
            ent[id].reqs[i].url = url /\ ent[id].reqs[i].outcome = "ok"

\* C27: fetch2 spares a resolution the network only by a cache entry, which
\* is there only once a request for the same URL has been answered by the
\* catalog: nothing joins a request to another one in flight, and of two
\* resolutions of the same title begun before either completed each goes
\* to the network when the first one's request fails.
C27_OnlyAnsweredRequestsSpare ==
    \A id \in DOMAIN ent :
        \A i \in 1..Len(ent[id].reqs) :
            ent[id].reqs[i].outcome = "hit" => RepliedOK(ent[id].reqs[i].url)

InFlight(e) == e.st \in {"request", "waiting"}

\* two resolutions of the same raw title are in flight, neither has
\* completed, and each has made a network request with the same URL
C27_Witness ==
    \E id1, id2 \in DOMAIN ent :
        /\ id1 # id2
        /\ InFlight(ent[id1]) /\ InFlight(ent[id2])
        /\ RawTitle(ent[id1].got) = RawTitle(ent[id2].got)
        /\ Len(ent[id1].reqs) = 1 /\ Len(ent[id2].reqs) = 1
        /\ ent[id1].reqs[1].url = ent[id2].reqs[1].url
        /\ ent[id1].reqs[1].outcome \notin {"hit", "ok"}
        /\ ent[id2].reqs[1].outcome \notin {"hit", "ok"}

\* the outcome of the request fetch2 has just replied to
LastOutcome(e) == e.reqs[Len(e.reqs)].outcome

\* C28: fetch2 writes its cache only when a request has succeeded, and then
\* the entry of that request's URL; a request that fails leaves the cache
\* as it is, so that no cache entry stands for a failure.
C28_CacheWrittenOnSuccessOnly ==
    /\ [][cache' # cache =>
            /\ srv.st = "limited"
            /\ LastOutcome(ent'[srv.id]) = "ok"
            /\ \A c \in cache' \ cache : c.url = srv.url]_vars
    /\ [](\A c \in cache : RepliedOK(c.url))

\* a request failed, nothing is cached for its URL, and the next request
\* with that URL is on its way to the network
C28_Witness ==
    /\ srv.st = "limited"
    /\ ~CacheHit(cache, srv.url)
    /\ \E id \in DOMAIN ent :
          /\ id # srv.id
          /\ \E i \in 1..Len(ent[id].reqs) :
                /\ ent[id].reqs[i].url = srv.url
                /\ ent[id].reqs[i].outcome \in SearchOutcomes \ {"ok"}

----------------------------------------------------------------------------
(* Claims about the progress of fetch2 and LinkFromFiles *)

\* the replies entity e has had from fetch2
Replies(e) == Cardinality({i \in 1..Len(e.reqs) : IsSearch(e.reqs[i].url)})

\* the requests entity e has sent to fetch2
Submitted(e) ==
    IF e.st \in {"none", "spawned"} \/ e.vi = 0 THEN 0
    ELSE IF e.m.type = "episode" THEN (IF e.st = "request" THEN 0 ELSE 1)
    ELSE IF e.st = "request" THEN e.vi - 1 ELSE e.vi

\* the run is over: linkc is closed, or the process has died of a panic
RunOver == linkClosed \/ crashed

\* C29: every request submitted to fetch2 gets exactly one reply: an entity
\* has as many replies as it has sent requests, but for the one it waits
\* for, and when the run is over fetch2 holds no request and no entity waits
\* for a reply.
C29_EveryRequestRepliedOnce ==
    /\ \A id \in DOMAIN ent :
          Replies(ent[id]) = Submitted(ent[id]) - (IF ent[id].st = "waiting" THEN 1 ELSE 0)
    /\ RunOver =>
          /\ srv.st = "idle"
          /\ \A id \in DOMAIN ent : ent[id].st # "waiting"

\* a media filter excludes the entity
Rejected(e) == \E i \in 1..Len(mediaFilters) : countryFilterExclude(mediaFilters[i], e.m)

\* the Links LinkFromFiles is to deliver for entity id: one when it was
\* discovered and is neither type-excluded nor rejected by a media filter
Due(id) ==
    IF ent[id].st # "none" /\ ~TypeExcluded(ent[id].m) /\ ~Rejected(ent[id]) THEN 1 ELSE 0

\* C30: LinkFromFiles delivers one Link for every discovered entity that is
\* neither type-excluded nor rejected by a media filter and none for the
\* others; linkc is closed once, after the entity tasks of all roots have
\* finished, and the run is not over before it is closed.
C30_OneLinkEachThenClosed ==
    /\ \A id \in DOMAIN linked : linked[id] <= Due(id)
    /\ linkClosed =>
          /\ lcloser = "done" /\ lwg = 0 /\ src = Len(roots)
          /\ \A id \in DOMAIN ent : ent[id].st \in {"none", "done"}
    /\ RunOver =>
          /\ linkClosed
          /\ \A id \in DOMAIN linked : linked[id] = Due(id)

----------------------------------------------------------------------------
(* Claims about the type and the numbers of a classified path *)

\* NewLinkable has returned
Classified == cpc \in {"classified", "planned"}

\* the marker of the base name of the path classified
BaseMarker == episodeExpr(BaseNameOf(cpath))

\* C35: the type is decided from the base name alone: the result is an
\* Episode exactly when the base name holds an episode marker, and a base
\* name without one gives a Movie or a failed Movie, whatever the names of
\* its directories hold.
C35_TypeFromBaseName ==
    Classified => (cresult.type = "episode" <=> BaseMarker.found)

\* the digits after the s and after the first e of the marker m of s
SeasonDigits(s, m) == Slice(s, m.g1s + 1, m.g1e)

EpisodeDigits(s, m) == Slice(s, m.g2s + 1, m.g2e)

\* a number of the base name's marker does not parse as an int
SeasonUnparsed == BaseMarker.found /\ ~Atoi(SeasonDigits(BaseNameOf(cpath), BaseMarker)).ok

EpisodeUnparsed == BaseMarker.found /\ ~Atoi(EpisodeDigits(BaseNameOf(cpath), BaseMarker)).ok

\* C36: when the season or the episode number of the marker does not parse,
\* NewLinkable still gives the Episode, with 0 in that field, and without the
\* error that makes findFiles drop the file.
C36_UnparsedNumberKeepsEpisode ==
    (Classified /\ (SeasonUnparsed \/ EpisodeUnparsed)) =>
        /\ cresult.type = "episode"
        /\ SeasonUnparsed => cresult.season = 0
        /\ EpisodeUnparsed => cresult.episode = 0
        /\ ~cresult.err

----------------------------------------------------------------------------
(* Claims about the spans of a classified path *)

\* where the year markers and the sentinel markers of s start, from offset
\* from on
YearStarts(s, from) == {i \in from..(Len(s) - 4) : dateExprAt(s, i)}

SentinelStarts(s, from) == {i \in from..(Len(s) - 1) : sentinelExprAt(s, i)}

\* the boundary of the episode title: the start of the first year or
\* sentinel marker after the episode marker, or the end of the name
TitleBoundary(s, m) ==
    IF YearStarts(s, m.end) \cup SentinelStarts(s, m.end) = {} THEN Len(s)
    ELSE Min(YearStarts(s, m.end) \cup SentinelStarts(s, m.end))

\* C37: the title of an Episode is the normalised text between the end of
\* the episode marker and the next boundary; there is none when the boundary
\* is where the title would start.
C37_EpisodeTitleSpan ==
    (Classified /\ BaseMarker.found /\ cresult.type = "episode") =>
        cresult.title =
            makeTitle(Slice(BaseNameOf(cpath), BaseMarker.end,
                            TitleBoundary(BaseNameOf(cpath), BaseMarker)))

\* the year marker of s has a date suffix
Dated(s) == dateExpr(s).found /\ dateExpr(s).end > dateExpr(s).start + 4

\* the four digits of the year marker of s
FourDigitYear(s) == DigitsValue(Slice(s, dateExpr(s).start, dateExpr(s).start + 4))

\* s without the date suffix of its year marker
YearOnly(s) == Slice(s, 0, dateExpr(s).start + 4) \o Slice(s, dateExpr(s).end, Len(s))

\* the path with the base name s in the place of its own
WithBaseName(path, s) == SplitDir(path) \o s \o Ext(SplitFile(path))

\* the year marker of s is the same marker without its date suffix
SameMarkerUndated(s) ==
    /\ dateExpr(YearOnly(s)).found
    /\ dateExpr(YearOnly(s)).start = dateExpr(s).start
    /\ dateExpr(YearOnly(s)).end = dateExpr(s).start + 4

\* the result for the path whose year marker has no date suffix
UndatedResult == NewLinkable(WithBaseName(cpath, YearOnly(BaseNameOf(cpath))))

\* C38: a date suffix after the year marker changes nothing: the year is
\* the four-digit year alone, and the title span (the series of an Episode
\* whose year marker comes after some name, the title of a Movie) is bounded
\* as it is by the year marker without the suffix.
C38_DateSuffixYearOnly ==
    (Classified /\ Dated(BaseNameOf(cpath)) /\ SameMarkerUndated(BaseNameOf(cpath))) =>
        /\ cresult.type = UndatedResult.type
        /\ cresult.err = UndatedResult.err
        /\ cresult.year = UndatedResult.year
        /\ (cresult.type = "episode" /\ BaseMarker.found) =>
              /\ cresult.year = FourDigitYear(BaseNameOf(cpath))
              /\ dateExpr(BaseNameOf(cpath)).start > 1 => cresult.series = UndatedResult.series
        /\ cresult.type = "movie" => cresult.title = UndatedResult.title

\* the candidate of MovieFromPath for the name i: the normalised title up to
\* the year or sentinel marker, and the year of the year marker (0: none)
CandidateTitle(i) == makeTitle(Slice(i, 0, MovieTitleEnd(Len(i), dateExpr(i), sentinelExpr(i))))

CandidateYear(i) == IF dateExpr(i).found THEN FourDigitYear(i) ELSE 0

\* the longer of the two titles, the first one when they are as long
Longer(t1, t2) == IF Len(t2) > Len(t1) THEN t2 ELSE t1

DirNameOf(path) == Base(SplitDir(path))

\* the base name gives a title and a valid year
BaseSuffices(path) ==
    CandidateTitle(BaseNameOf(path)) # <<>> /\ YearValid(CandidateYear(BaseNameOf(path)))

\* C39: the directory name is looked at only when the base name does not
\* give both a title and a valid year; the title is then the longer of the
\* two candidates, the base name's when they are as long, and the year the
\* directory's when it has one.
C39_DirectoryOnlyWhenNeeded ==
    (Classified /\ cresult.type = "movie") =>
        IF BaseSuffices(cpath)
        THEN /\ cresult.title = CandidateTitle(BaseNameOf(cpath))
             /\ cresult.year = CandidateYear(BaseNameOf(cpath))
        ELSE /\ cresult.title = Longer(CandidateTitle(BaseNameOf(cpath)),
                                       CandidateTitle(DirNameOf(cpath)))
             /\ cresult.year = IF dateExpr(DirNameOf(cpath)).found
                               THEN CandidateYear(DirNameOf(cpath))
                               ELSE CandidateYear(BaseNameOf(cpath))

----------------------------------------------------------------------------
(* SearchMovie and SearchEpisode with the goroutine that feeds the          *)
(* candidates on c: of cmd/link.go, and SearchMovie of tmdb/tmdb.go         *)

\* what the search request comes to; a malformed body may have filled some
\* of the Results before json.Unmarshal reports its error
SearchCallOutcomes == {"ok", "transport", "malformed"}

\* the done channel SearchMovie and SearchEpisode hand to SearchMovies and
\* SearchTV: their own, but nil in tmdb/tmdb.go
HandsDone(fn) == fn # "tmdb.SearchMovie"

\* a call of fn whose request comes to outcome with n Results: feeder is
\* the goroutine that sends them on c, sent how many it has sent
NewSearch(fn, outcome, n) ==
    [fn |-> fn, outcome |-> outcome, n |-> n, done |-> HandsDone(fn), doneClosed |-> FALSE,
     feeder |-> "none", sent |-> 0, cClosed |-> FALSE, pc |-> "called"]

\* the calls: a request that failed at the transport has no Results
SearchCalls ==
    {c \in {NewSearch(fn, outcome, n) :
               fn \in {"SearchMovie", "SearchEpisode", "tmdb.SearchMovie"},
               outcome \in SearchCallOutcomes, n \in 0..MaxResults} :
        c.outcome = "transport" => c.n = 0}

SearchInit ==
    /\ SkipTitleCaser = FALSE
    /\ cpath = <<>> /\ cresult = NoResult /\ cpc = "idle" /\ ctarget = <<>>
    /\ CreateIdle
    /\ call \in SearchCalls
    /\ WalkIdle
    /\ LinkIdle

\* errs after the request and the test of len(Results)
SearchErrs(c) == c.outcome # "ok" \/ c.n = 0

\* SearchMovies, SearchTV: the request, the start of the feeder and
\* errc <- errors.Join(errs...); in tmdb/tmdb.go a transport error leaves
\* res nil and res.Body panics
SearchStart ==
    /\ call.pc = "called"
    /\ call' = IF call.fn = "tmdb.SearchMovie" /\ call.outcome = "transport"
               THEN [call EXCEPT !.pc = "panicked"]
               ELSE [call EXCEPT !.feeder = "run", !.pc = "errc"]
    /\ MatchFrame

\* if err := <-errc; err != nil: return, and the deferred close(done)
SearchErr ==
    /\ call.pc = "errc"
    /\ call' = IF SearchErrs(call)
               THEN [call EXCEPT !.pc = "returned", !.doneClosed = TRUE]
               ELSE [call EXCEPT !.pc = "recv"]
    /\ MatchFrame

\* <-movies, <-res meets the feeder's c <- r; SearchMovie returns with the
\* candidate, SearchEpisode goes on to fetch
SearchRecv ==
    /\ call.pc = "recv" /\ call.feeder = "run" /\ call.sent < call.n
    /\ call' = IF call.fn = "SearchEpisode"
               THEN [call EXCEPT !.sent = @ + 1, !.pc = "fetch"]
               ELSE [call EXCEPT !.sent = @ + 1, !.pc = "returned", !.doneClosed = TRUE]
    /\ MatchFrame

\* err := fetch(query, &ep); return: a transport error makes fetch panic
SearchFetch ==
    /\ call.pc = "fetch"
    /\ \E outcome \in FetchOutcomes :
          call' = IF outcome = "transport"
                  THEN [call EXCEPT !.pc = "panicked"]
                  ELSE [call EXCEPT !.pc = "returned", !.doneClosed = TRUE]
    /\ MatchFrame

\* the feeder's select takes <-done: return, and the deferred close(c).  A
\* receive from a nil channel is never ready.
FeederCancel ==
    /\ call.pc # "panicked"
    /\ call.feeder = "run" /\ call.sent < call.n
    /\ call.done /\ call.doneClosed
    /\ call' = [call EXCEPT !.feeder = "done", !.cClosed = TRUE]
    /\ MatchFrame

\* the range over Results is over: close(c)
FeederEnd ==
    /\ call.pc # "panicked"
    /\ call.feeder = "run" /\ call.sent = call.n
    /\ call' = [call EXCEPT !.feeder = "done", !.cClosed = TRUE]
    /\ MatchFrame

SearchNext ==
    \/ SearchStart
    \/ SearchErr
    \/ SearchRecv
    \/ SearchFetch
    \/ FeederCancel
    \/ FeederEnd

SpecSearch == SearchInit /\ [][SearchNext]_vars

\* the feeder has a step to make
FeederReady ==
    call.feeder = "run" /\ (call.sent = call.n \/ (call.done /\ call.doneClosed))

\* C31: once SearchMovie or SearchEpisode has returned, the feeder has ended
\* or has a step to make (the end of its loop, or the closed done): it is
\* never left at a send that nobody will receive.
C31_FeederNeverStuck ==
    call.pc = "returned" => (call.feeder = "done" \/ FeederReady)

----------------------------------------------------------------------------
(* The movie branch of tmdbLookup taken alone, over titles of a few words   *)

MaxWords == 5

\* the parts of a title between its spaces: a part is empty where the name
\* had two separators in a row ("a..b" gives "a  b"); makeTitle leaves no
\* space at either end
TitleParts ==
    {ws \in UNION {[1..k -> {<<"a">>, <<"b">>, <<>>}] : k \in 1..MaxWords} :
        ws[1] # <<>> /\ ws[Len(ws)] # <<>>}

VariantTitles == {Join(ws, " ") : ws \in TitleParts}

\* a call of tmdbLookup for the movie m: vi is the place of the loop in the
\* title variants, queries the searches made so far
NewLookup(m) ==
    [fn |-> "tmdbLookup", m |-> m, parsed |-> m.title, vi |-> 1, queries |-> <<>>,
     pc |-> "called"]

VariantsInit ==
    /\ SkipTitleCaser = FALSE
    /\ cpath = <<>> /\ cresult = NoResult /\ cpc = "idle" /\ ctarget = <<>>
    /\ CreateIdle
    /\ call \in {NewLookup([type |-> "movie", path |-> <<>>, title |-> t, year |-> y,
                            err |-> FALSE]) :
                    t \in VariantTitles, y \in {0, 1999}}
    /\ WalkIdle
    /\ LinkIdle

\* one round of the loop over the variants: SearchMovie(i, searchOpts)
\* fails or finds nothing and the loop goes on, or the movie takes the
\* result's title (and its year, when it has none) and tmdbLookup returns
VariantSearch ==
    /\ call.fn = "tmdbLookup" /\ call.pc = "called"
    /\ call.vi <= Len(MovieVariants(call.m))
    /\ \E found \in BOOLEAN :
          call' = IF found
                  THEN [call EXCEPT !.queries = Append(@, MovieRequest(call.m, call.vi)),
                                    !.m.title = Result1.name,
                                    !.m.year = IF YearValid(@) THEN @ ELSE Result1.year,
                                    !.pc = "returned"]
                  ELSE [call EXCEPT !.queries = Append(@, MovieRequest(call.m, call.vi)),
                                    !.vi = @ + 1]
    /\ MatchFrame

\* the variants are used up
VariantsEnd ==
    /\ call.fn = "tmdbLookup" /\ call.pc = "called"
    /\ call.vi > Len(MovieVariants(call.m))
    /\ call' = [call EXCEPT !.pc = "returned"]
    /\ MatchFrame

VariantsNext == VariantSearch \/ VariantsEnd

SpecVariants == VariantsInit /\ [][VariantsNext]_vars

\* half of n, rounded up
CeilHalf(n) == (n + 1) \div 2

\* the words of a title: its parts between spaces
Words(t) == Split(t, " ")

\* q is t less some trailing words, at most k of them
TrimmedBy(q, t, k) ==
    \E d \in 0..k :
        /\ d < Len(Words(t))
        /\ q = Join(SubSeq(Words(t), 1, Len(Words(t)) - d), " ")

\* C32: for a movie title of n words (the parts between its spaces, n >= 1)
\* the narrowing strategy makes at most ceil(n/2) queries; every query is for the title less at most ceil(n/2)
\* trailing words, and none is for an empty title.
C32_AtMostHalfTheWords ==
    call.fn = "tmdbLookup" =>
        /\ Len(call.queries) <= CeilHalf(Len(Words(call.parsed)))
        /\ \A i \in 1..Len(call.queries) :
              /\ call.queries[i].query # <<>>
              /\ TrimmedBy(call.queries[i].query, call.parsed,
                           CeilHalf(Len(Words(call.parsed))))

\* a title of five words has been searched for in three queries, the last
\* one for its first three words, and nothing was found
C32_Witness ==
    /\ call.fn = "tmdbLookup" /\ call.pc = "returned" /\ call.m.title = call.parsed
    /\ Len(Words(call.parsed)) = 5
    /\ Len(call.queries) = 3
    /\ Len(Words(call.queries[3].query)) = 3

----------------------------------------------------------------------------
(* Claims about the retry budget of lookupMovie *)

\* one retry for every three words of the title
Budget(t) == Len(Words(t)) \div 3

\* C33: the budget of lookupMovie is that of the title the movie was parsed
\* with, one retry for every three words, whatever the title it searches
\* for by now; it makes at most budget+1 searches; and when the budget is
\* used up without a match the movie keeps its parsed title.
C33_BudgetFromParsedTitle ==
    call.fn = "lookupMovie" =>
        /\ call.limit = Budget(call.parsed)
        /\ call.searches <= Budget(call.parsed) + 1
        /\ (call.pc = "returned" /\ call.sel = 0) => call.m.Title = call.parsed

\* a title of three words was searched for twice, the second time less its
\* last word; nothing matched and the movie has its parsed title
C33_Witness ==
    /\ call.fn = "lookupMovie" /\ call.pc = "returned" /\ ~call.err /\ call.sel = 0
    /\ Len(Words(call.parsed)) = 3
    /\ call.searches = 2 /\ call.i = 2
    /\ Len(Words(call.title)) = 1
    /\ call.m.Title = call.parsed

----------------------------------------------------------------------------
(* Claims about the series the catalog search selects *)

\* the response with n results
ResultsOf(n) == CHOOSE r \in SearchResults : Len(r) = n

\* the least edit distance from title to a name of the results
LeastDistance(title, results) ==
    Min({ComputeDistance(title, results[i].name) : i \in 1..Len(results)})

\* C34: when the series search returns more than one match, the series
\* taken for the Episode is the match whose name is nearest to the parsed
\* series title in edit distance.
C34_SeriesNearestMatch ==
    \A id \in DOMAIN ent :
        (/\ ent[id].m.type = "episode" /\ ent[id].show # NoShow
         /\ ent[id].reqs # <<>> /\ ent[id].reqs[1].n > 1) =>
            ComputeDistance(ent[id].got.series, ent[id].show.name)
                = LeastDistance(ent[id].got.series, ResultsOf(ent[id].reqs[1].n))

----------------------------------------------------------------------------
(* Claims about the bounds of the slices of EpisodeFromPath and            *)
(* MovieFromPath                                                           *)

\* s[a:b] does not panic
InBounds(a, b, len) == 0 <= a /\ a <= b /\ b <= len

\* the slices EpisodeFromPath takes of the base name s with the marker m:
\* the sub-matches, the date, the title when title[0] <= title[1], and the
\* series; of the ID, the season's digits and the part after its first e
EpisodeSlicesOK(s, m) ==
    /\ InBounds(m.g1s, m.g1e, Len(s)) /\ InBounds(m.g2s, m.g2e, Len(s))
    /\ m.g3s # -1 => InBounds(m.g3s, m.g3e, Len(s))
    /\ Len(seasonExpr(EpisodeID(s, m))) >= 1
    /\ Len(Split(ToLowerStr(EpisodeID(s, m)), "e")) >= 2
    /\ dateExpr(s).found => InBounds(dateExpr(s).start, dateExpr(s).end, Len(s))
    /\ (EpisodeIDEnd(m) + 1 <= EpisodeTitleEnd(s, EpisodeIDEnd(m) + 1)) =>
          InBounds(EpisodeIDEnd(m) + 1, EpisodeTitleEnd(s, EpisodeIDEnd(m) + 1), Len(s))
    /\ InBounds(0, EpisodeSeriesEnd(s, m.start), Len(s))

\* the slices MovieFromPath takes of the candidate i: the date and the title
MovieSlicesOK(i) ==
    /\ dateExpr(i).found => InBounds(dateExpr(i).start, dateExpr(i).end, Len(i))
    /\ InBounds(0, MovieTitleEnd(Len(i), dateExpr(i), sentinelExpr(i)), Len(i))

\* file[:len(file)-len(ext)]
BaseNameSliceOK(file) == InBounds(0, Len(file) - Len(Ext(file)), Len(file))

\* C40: wherever the episode, year and sentinel markers are in a name, the
\* slices EpisodeFromPath and MovieFromPath take are within the name, so
\* that classification does not panic; and an episode marker at the start
\* of the name gives an empty series and no failure, but for a number that
\* does not parse.
C40_SlicesWithinName ==
    Classified =>
        /\ BaseNameSliceOK(SplitFile(cpath))
        /\ IF cresult.type = "movie"
           THEN MovieSlicesOK(BaseNameOf(cpath)) /\ MovieSlicesOK(DirNameOf(cpath))
           ELSE BaseMarker.found =>
                   /\ EpisodeSlicesOK(BaseNameOf(cpath), BaseMarker)
                   /\ BaseMarker.start = 0 =>
                         /\ cresult.series = <<>>
                         /\ cresult.err => (SeasonUnparsed \/ EpisodeUnparsed)

\* a name that is an episode marker and nothing else: the marker is at the
\* start and at the end, the series and the title are empty
C40_Witness ==
    /\ Classified /\ cresult.type = "episode" /\ ~cresult.err
    /\ BaseMarker.found /\ BaseMarker.start = 0 /\ BaseMarker.end = Len(BaseNameOf(cpath))
    /\ EpisodeIDEnd(BaseMarker) + 1 > EpisodeTitleEnd(BaseNameOf(cpath), EpisodeIDEnd(BaseMarker) + 1)
    /\ cresult.series = <<>> /\ cresult.title = <<>>

====
